---- MODULE Spec2Model ----
(***************************************************************************)
(* A model of qrcatalog's data layer (package db): the shopping cart and   *)
(* its Save, the section change-detection updater, the paginated filter    *)
(* operations and the use of the connection pool.                          *)
(*                                                                         *)
(* Each subsystem has its own specification (SpecCart, SpecSection,        *)
(* SpecFilter, SpecQuery, SpecPool) over one set of variables; the         *)
(* variables of the other subsystems stay as Init left them.               *)
(***************************************************************************)
EXTENDS Integers, Sequences, FiniteSets, TLC

(***************************************************************************)
(* Bounds of the model.                                                    *)
(***************************************************************************)
\* largest Quantity a caller passes to AddItem / UpdateItemQty
MaxAddQty == 2
\* largest stock (catalog_products.quantity) of a product
MaxStock == 1
\* AddItem is not explored past this line quantity
MaxLineQty == 2

VARIABLES
    \* ---- cart.go: one Cart value and the rows of its id in the store
    Items,          \* Cart.Items: sequence of [ProductID, Quantity, MaxQty]
    CustomerName,   \* Cart.CustomerName
    updatedFields,  \* Cart.updatedFields: the keys mapped to true
    removedItems,   \* Cart.removedItems: the product ids queued for deletion
    isNew,          \* Cart.isNew
    carts,          \* table carts: the rows of the cart's id, [customer_name]
    cart_items,     \* table cart_items: the rows of the cart's id, [product_id, quantity]
    stock,          \* catalog_products.quantity per product
    saveResult,     \* what the last Save returned: "none", "ok", "err"
    saveFault,      \* the statement of the last Save that failed (0: none)
    saveLog,        \* the statements the last Save sent to the store
    \* ---- sections.go: one stored section and the callers that update it
    section,        \* the stored aggregate, as FindSectionByID returns it
    nextID,         \* the next identifier uuid.NewV7 hands out
    pc,             \* per editor: "edit", "called" (snapshot taken), "done"
    payload,        \* per editor: the *Section it passes to the updater
    snapshot,       \* per editor: currentSection of the running call
    kind,           \* per editor: the updater called
    result,         \* per editor: what the last call returned
    fault,          \* per editor: the statement of the last call that failed
    stmtLog,        \* per editor: the mutation statements the last call sent
    resubmit,       \* per editor: the last call repeated the call before it
    clean,          \* per editor: nothing committed since its last success
    editsLeft,      \* per editor: payload edits it may still make
    callsLeft,      \* per editor: calls it may still make
    \* ---- the catalog and the last results of the read operations
    available,      \* products.available per product
    gallery,        \* rows of images_products per product
    filterResult,   \* the result page of the last filter call
    readResult,     \* the products the last read operation returned
    compiled,       \* the clause or condition list the last builder call returned
    \* ---- the connection pool
    free,           \* connections of the pool nobody holds
    held,           \* per process: connections it holds
    running,        \* per process: the operation it runs
    ip,             \* per process: its next pool instruction
    peak,           \* per process: most connections its operation held at once
    \* ---- the single-entity lookups
    entities,       \* per lookup: the identities that have a row in the store
    lookup,         \* the last lookup call and what it returned
    \* ---- concurrent calls of GetOrCreateCart with one cart id
    at,             \* per request: "find", "create" (FindCartByID found no row), "done"
    got,            \* per request: what GetOrCreateCart returned
    \* ---- the requests that pass the PopulateAuth middleware
    handled,        \* per request: its token, its position, the calls of next
    \* ---- shared
    openTx,         \* transactions begun and neither committed nor rolled back
    focus           \* the subsystem this behaviour exercises

cartVars == <<Items, CustomerName, updatedFields, removedItems, isNew,
              carts, cart_items, stock, saveResult, saveFault, saveLog>>

secVars == <<section, nextID, pc, payload, snapshot, kind, result, fault,
             stmtLog, resubmit, clean, editsLeft, callsLeft>>

filterVars == <<available, gallery, filterResult, readResult, compiled>>

poolVars == <<free, held, running, ip, peak>>

reqVars == <<entities, lookup, at, got, handled>>

vars == <<cartVars, secVars, filterVars, poolVars, reqVars, openTx, focus>>

(***************************************************************************)
(* Cart (src/internal/db/cart.go)                                          *)
(***************************************************************************)
Products == {"p1", "p2"}
Names == {"ana"}

\* NewCart: the Cart value after construction
NewCart ==
    /\ Items = <<>>
    /\ CustomerName = ""
    /\ updatedFields = {}
    /\ removedItems = {}
    /\ isNew = TRUE

\* the store when the cart is constructed: no row of its id
InitCartStore ==
    /\ carts = {}
    /\ cart_items = {}
    /\ stock \in [Products -> 0..MaxStock]
    /\ saveResult = "none"
    /\ saveFault = 0
    /\ saveLog = <<>>

InitCart == NewCart /\ InitCartStore

\* a selection that ignores its second argument
first(a, b) == a

Min(a, b) == IF a <= b THEN a ELSE b

\* index of the first line of ProductID p, 0 when there is none
RECURSIVE IndexFrom(_, _, _)
IndexFrom(items, p, i) ==
    IF i > Len(items) THEN 0
    ELSE IF items[i].ProductID = p THEN i
    ELSE IndexFrom(items, p, i + 1)

LineIndex(items, p) == IndexFrom(items, p, 1)

\* append(c.Items[:i], c.Items[i+1:]...)
RemoveAt(items, i) == SubSeq(items, 1, i - 1) \o SubSeq(items, i + 1, Len(items))

\* an AddItem that appends a line whatever the cart holds
appendAlways(items, item) == Append(items, item)

\* Cart.AddItem: the line list after AddItem(item)
AddItemLines(items, item) ==
    LET i == LineIndex(items, item.ProductID) IN
    IF i # 0
    THEN [items EXCEPT ![i].Quantity = items[i].Quantity + item.Quantity]
    ELSE Append(items, item)

\* Cart.RemoveItem: the line list after RemoveItem(itemID)
RemoveItemLines(items, itemID) ==
    LET i == LineIndex(items, itemID) IN
    IF i # 0 THEN RemoveAt(items, i) ELSE items

\* Cart.UpdateItemQty with quantity > 0: the line list
UpdateQtyLines(items, itemID, quantity) ==
    LET i == LineIndex(items, itemID) IN
    IF i # 0
    THEN [items EXCEPT ![i].Quantity = Min(quantity, items[i].MaxQty)]
    ELSE items

\* a step of the cart leaves the rest of the system alone
CartOnly == focus = "cart" /\ UNCHANGED <<secVars, filterVars, poolVars, reqVars, focus>>

\* an operation on the Cart value forgets the outcome of the Save before it
ResetSave ==
    /\ saveResult' = "none"
    /\ saveFault' = 0
    /\ saveLog' = <<>>
    /\ CartOnly

\* the caller builds the item from the catalog product: a positive quantity
\* within the product's stock, MaxQty the stock
AddItem(p, q) ==
    LET item == [ProductID |-> p, Quantity |-> q, MaxQty |-> stock[p]]
        lines == AddItemLines(Items, item) IN
    /\ q <= stock[p]
    /\ \A i \in 1..Len(lines) : lines[i].Quantity <= MaxLineQty
    /\ updatedFields' = updatedFields \cup {"items"}
    /\ Items' = lines
    /\ ResetSave
    /\ UNCHANGED <<CustomerName, removedItems, isNew, carts, cart_items, stock, openTx>>

RemoveItem(p) ==
    /\ updatedFields' = updatedFields \cup {"items"}
    /\ removedItems' = removedItems \cup {p}
    /\ Items' = RemoveItemLines(Items, p)
    /\ ResetSave
    /\ UNCHANGED <<CustomerName, isNew, carts, cart_items, stock, openTx>>

UpdateItemQty(p, q) ==
    /\ updatedFields' = updatedFields \cup {"items"}
    /\ IF q <= 0
       THEN /\ removedItems' = removedItems \cup {p}
            /\ Items' = RemoveItemLines(Items, p)
       ELSE /\ Items' = UpdateQtyLines(Items, p, q)
            /\ UNCHANGED removedItems
    /\ ResetSave
    /\ UNCHANGED <<CustomerName, isNew, carts, cart_items, stock, openTx>>

ClearCart ==
    /\ removedItems' = removedItems \cup {Items[i].ProductID : i \in 1..Len(Items)}
    /\ Items' = <<>>
    /\ ResetSave
    /\ UNCHANGED <<CustomerName, updatedFields, isNew, carts, cart_items, stock, openTx>>

\* Cart.SetFrom with the one key customer_name
SetFrom(name) ==
    /\ CustomerName' = name
    /\ updatedFields' = updatedFields \cup {"customer_name"}
    /\ ResetSave
    /\ UNCHANGED <<Items, removedItems, isNew, carts, cart_items, stock, openTx>>

(***************************************************************************)
(* Cart.Save: the statements of one call, run in one transaction.          *)
(***************************************************************************)
NonItemFields == updatedFields \ {"items"}

\* cart.go:223, the condition under which the root statement is sent
WritesRoot ==
    /\ (isNew \/ updatedFields # {})
    /\ ~(updatedFields = {"items"})

Stmt(k, upsert, product, quantity, ids) ==
    [kind |-> k, upsert |-> upsert, product_id |-> product,
     quantity |-> quantity, ids |-> ids]

BeginStmt == Stmt("begin", FALSE, "", 0, {})
CommitStmt == Stmt("commit", FALSE, "", 0, {})
\* INSERT INTO carts ..., with ON CONFLICT (id) DO UPDATE only when a field
\* other than items is marked
RootStmt == Stmt("root", NonItemFields # {}, "", 0, {})
ItemStmt(line) == Stmt("item", TRUE, line.ProductID, line.Quantity, {})
\* a DELETE that names no product
deleteNone == Stmt("delete", FALSE, "", 0, {})
DeleteStmt == Stmt("delete", FALSE, "", 0, removedItems)

SaveStmts ==
    <<BeginStmt>>
    \o (IF WritesRoot THEN <<RootStmt>> ELSE <<>>)
    \o (IF "items" \in updatedFields
        THEN [i \in 1..Len(Items) |-> ItemStmt(Items[i])]
        ELSE <<>>)
    \o (IF removedItems # {} THEN <<DeleteStmt>> ELSE <<>>)
    \o <<CommitStmt>>

\* the constraints of tables carts and cart_items on one statement
CartsPKey(db, s) == s.upsert \/ db.carts = {}
CartItemsCartFKey(db, s) == db.carts # {}
CartItemsQuantityCheck(s) == s.quantity > 0

StmtAccepted(db, s) ==
    CASE s.kind = "root" -> CartsPKey(db, s)
      [] s.kind = "item" -> CartItemsCartFKey(db, s) /\ CartItemsQuantityCheck(s)
      [] OTHER -> TRUE

\* the tables after an accepted statement
StmtEffect(db, s) ==
    CASE s.kind = "root" ->
            [db EXCEPT !.carts =
                IF "customer_name" \in NonItemFields
                THEN {[customer_name |-> CustomerName]}
                ELSE IF db.carts = {} THEN {[customer_name |-> ""]} ELSE db.carts]
      [] s.kind = "item" ->
            [db EXCEPT !.cart_items =
                {r \in db.cart_items : r.product_id # s.product_id}
                \cup {[product_id |-> s.product_id, quantity |-> s.quantity]}]
      [] s.kind = "delete" ->
            [db EXCEPT !.cart_items = {r \in db.cart_items : r.product_id \notin s.ids}]
      [] OTHER -> db

\* run statements i.. of stmts on the transaction's view db; statement f is
\* the one the store or the network fails (0: none).  fail is the index of
\* the first statement that returned an error, 0 when all succeeded.
RECURSIVE RunFrom(_, _, _, _)
RunFrom(db, stmts, i, f) ==
    IF i > Len(stmts) THEN [fail |-> 0, db |-> db]
    ELSE IF i = f \/ ~StmtAccepted(db, stmts[i]) THEN [fail |-> i, db |-> db]
    ELSE RunFrom(StmtEffect(db, stmts[i]), stmts, i + 1, f)

\* a Save whose failed transaction keeps the statements that succeeded
SaveKeepsPartial(pre, run) == run.db

\* tx.Commit on success, tx.Rollback on every error path
SaveOutcome(pre, run) == IF run.fail = 0 THEN run.db ELSE pre

\* the error paths of Save that call tx.Rollback (cart.go:254, 280, 294)
SaveRollsBack == {"root", "item", "delete"}

\* a transaction Save began and left neither committed nor rolled back
SaveLeavesTxOpen(stmts, run) ==
    /\ run.fail > 1
    /\ stmts[run.fail].kind # "commit"
    /\ stmts[run.fail].kind \notin SaveRollsBack

\* cart.go:257 is reached when Begin and the root statement returned no error
ReachedIsNewReset(run) == run.fail = 0 \/ run.fail > (IF WritesRoot THEN 2 ELSE 1)

Save ==
    \E f \in 0..Len(SaveStmts) :
        LET pre == [carts |-> carts, cart_items |-> cart_items]
            run == RunFrom(pre, SaveStmts, 1, f)
            post == SaveOutcome(pre, run) IN
        /\ carts' = post.carts
        /\ cart_items' = post.cart_items
        /\ isNew' = IF ReachedIsNewReset(run) THEN FALSE ELSE isNew
        /\ saveResult' = IF run.fail = 0 THEN "ok" ELSE "err"
        /\ saveFault' = run.fail
        /\ saveLog' = SubSeq(SaveStmts, 1, IF run.fail = 0 THEN Len(SaveStmts) ELSE run.fail)
        /\ openTx' = openTx + (IF SaveLeavesTxOpen(SaveStmts, run) THEN 1 ELSE 0)
        /\ UNCHANGED <<Items, CustomerName, updatedFields, removedItems, stock>>
        /\ CartOnly

\* LoadItems: the rows of cart_items joined with catalog_products
ProductOrder == <<"p1", "p2">>

RECURSIVE LoadFrom(_, _)
LoadFrom(rows, i) ==
    IF i > Len(ProductOrder) THEN <<>>
    ELSE LET found == {r \in rows : r.product_id = ProductOrder[i]} IN
         (IF found = {} THEN <<>>
          ELSE LET r == CHOOSE x \in found : TRUE IN
               <<[ProductID |-> r.product_id, Quantity |-> r.quantity,
                  MaxQty |-> stock[r.product_id]]>>)
         \o LoadFrom(rows, i + 1)

\* FindCartByID when the row exists: a fresh Cart value read from the store
FindCartByID ==
    /\ carts # {}
    /\ CustomerName' = (CHOOSE r \in carts : TRUE).customer_name
    /\ Items' = LoadFrom(cart_items, 1)
    /\ updatedFields' = {}
    /\ removedItems' = {}
    /\ isNew' = FALSE
    /\ ResetSave
    /\ UNCHANGED <<carts, cart_items, stock, openTx>>

\* the catalog changes a product's stock (UpdateProduct, outside the cart)
SetStock(p, n) ==
    /\ stock[p] # n
    /\ stock' = [stock EXCEPT ![p] = n]
    /\ UNCHANGED <<Items, CustomerName, updatedFields, removedItems, isNew,
                   carts, cart_items, saveResult, saveFault, saveLog, openTx>>
    /\ CartOnly

NextCart ==
    \/ \E p \in Products, q \in 1..MaxAddQty : AddItem(p, q)
    \/ \E p \in Products, q \in 0..MaxAddQty : UpdateItemQty(p, q)
    \/ \E p \in Products : RemoveItem(p)
    \/ ClearCart
    \/ \E n \in Names : SetFrom(n)
    \/ Save
    \/ FindCartByID
    \/ \E p \in Products, n \in 0..MaxStock : SetStock(p, n)

(***************************************************************************)
(* Sections (src/internal/db/sections.go)                                  *)
(*                                                                         *)
(* A Section is [Name, Title, Image, BGImage, Paragraphs, Services], a     *)
(* SectionParagraph [ID, Order, Content], a SectionService [ID, Title,     *)
(* Price, Description, Items] and a SectionServiceItem [ID, Order, Price,  *)
(* Content, ContentAsList].  Identifiers are numbers; NoID is the empty    *)
(* string.                                                                 *)
(***************************************************************************)
\* identifiers uuid.NewV7 may hand out
MaxIDs == 9
\* payload edits of the editor of SpecSection, and its calls
MaxEdits == 2
MaxCalls == 2
\* payload edits and calls of each of the two editors of SpecRace
MaxRaceEdits == 1
MaxRaceCalls == 1
\* payload edits of the editor of SpecAtomic
MaxAtomicEdits == 1

NoID == 0
\* an identifier no stored record has
GhostID == MaxIDs + 1

Editors == {"e1", "e2"}
Strs == {"a", "b"}
Ints == {1, 2}

\* the section the store holds at the start: one paragraph, one service
\* with one item
InitialSection ==
    [Name |-> "a", Title |-> "a", Image |-> "a", BGImage |-> "a",
     Paragraphs |-> <<[ID |-> 1, Order |-> 1, Content |-> "a"]>>,
     Services |-> <<[ID |-> 2, Title |-> "a", Price |-> 1, Description |-> "a",
                     Items |-> <<[ID |-> 3, Order |-> 1, Price |-> 1,
                                  Content |-> "a", ContentAsList |-> FALSE]>>]>>]

sectionChanged(current, updated) ==
    \/ current.Name # updated.Name
    \/ current.Title # updated.Title
    \/ current.Image # updated.Image
    \/ current.BGImage # updated.BGImage

\* a comparison that reports every pair of records as changed
alwaysChanged(current, updated) == TRUE

paragraphChanged(current, updated) ==
    \/ current.Order # updated.Order
    \/ current.Content # updated.Content

serviceChanged(current, updated) ==
    \/ current.Title # updated.Title
    \/ current.Price # updated.Price
    \/ current.Description # updated.Description

serviceItemChanged(current, updated) ==
    \/ current.Order # updated.Order
    \/ current.Price # updated.Price
    \/ current.Content # updated.Content
    \/ current.ContentAsList # updated.ContentAsList

\* index of the first record of the given ID, 0 for nil
FirstWithID(records, id) ==
    LET found == {i \in 1..Len(records) : records[i].ID = id} IN
    IF found = {} THEN 0 ELSE CHOOSE i \in found : \A j \in found : i <= j

findParagraphByID(paragraphs, id) == FirstWithID(paragraphs, id)
findServiceByID(services, id) == FirstWithID(services, id)
findServiceItemByID(items, id) == FirstWithID(items, id)

\* one statement of the updater's transaction
SecStmt(op, table, id, parent, row) ==
    [op |-> op, table |-> table, id |-> id, parent |-> parent, row |-> row]

SecBegin == SecStmt("BEGIN", "", NoID, NoID, <<>>)
SecCommit == SecStmt("COMMIT", "", NoID, NoID, <<>>)

RootRow(s) == [Name |-> s.Name, Title |-> s.Title, Image |-> s.Image, BGImage |-> s.BGImage]
ParagraphRow(p) == [Order |-> p.Order, Content |-> p.Content]
ServiceRow(s) == [Title |-> s.Title, Price |-> s.Price, Description |-> s.Description]
ItemRow(i) == [Order |-> i.Order, Price |-> i.Price, Content |-> i.Content,
               ContentAsList |-> i.ContentAsList]

\* the statements and the identifiers used; a pair [stmts, nid]
Out(stmts, nid) == [stmts |-> stmts, nid |-> nid]
Then(stmt, rest) == Out(<<stmt>> \o rest.stmts, rest.nid)

\* the loop over section.Paragraphs.  additions is FALSE in UpdateSection,
\* where a paragraph without identifier finds no current paragraph.
RECURSIVE ParagraphStmts(_, _, _, _, _)
ParagraphStmts(current, paragraphs, i, nid, additions) ==
    IF i > Len(paragraphs) THEN Out(<<>>, nid)
    ELSE
    LET newPara == paragraphs[i] IN
    IF newPara.ID # NoID \/ ~additions
    THEN LET c == findParagraphByID(current.Paragraphs, newPara.ID)
             rest == ParagraphStmts(current, paragraphs, i + 1, nid, additions) IN
         IF c = 0 THEN rest
         ELSE IF paragraphChanged(current.Paragraphs[c], newPara)
         THEN Then(SecStmt("UPDATE", "section_paragraphs", newPara.ID, NoID,
                           ParagraphRow(newPara)), rest)
         ELSE rest
    ELSE Then(SecStmt("INSERT", "section_paragraphs", nid, NoID, ParagraphRow(newPara)),
              ParagraphStmts(current, paragraphs, i + 1, nid + 1, additions))

\* the loop over the items of a service found in the snapshot
RECURSIVE ItemStmts(_, _, _, _, _, _)
ItemStmts(currentItems, items, i, serviceID, nid, additions) ==
    IF i > Len(items) THEN Out(<<>>, nid)
    ELSE
    LET newItem == items[i] IN
    IF newItem.ID # NoID \/ ~additions
    THEN LET c == findServiceItemByID(currentItems, newItem.ID)
             rest == ItemStmts(currentItems, items, i + 1, serviceID, nid, additions) IN
         IF c = 0 THEN rest
         ELSE IF serviceItemChanged(currentItems[c], newItem)
         THEN Then(SecStmt("UPDATE", "section_service_items", newItem.ID, NoID,
                           ItemRow(newItem)), rest)
         ELSE rest
    ELSE Then(SecStmt("INSERT", "section_service_items", nid, serviceID, ItemRow(newItem)),
              ItemStmts(currentItems, items, i + 1, serviceID, nid + 1, additions))

\* the loop over the items of a service the call inserts: every item is
\* inserted under a new identifier
RECURSIVE NewServiceItemStmts(_, _, _, _)
NewServiceItemStmts(items, i, serviceID, nid) ==
    IF i > Len(items) THEN Out(<<>>, nid)
    ELSE Then(SecStmt("INSERT", "section_service_items", nid, serviceID, ItemRow(items[i])),
              NewServiceItemStmts(items, i + 1, serviceID, nid + 1))

\* the loop over section.Services
RECURSIVE ServiceStmts(_, _, _, _, _)
ServiceStmts(current, services, i, nid, additions) ==
    IF i > Len(services) THEN Out(<<>>, nid)
    ELSE
    LET newService == services[i] IN
    IF newService.ID # NoID \/ ~additions
    THEN LET c == findServiceByID(current.Services, newService.ID) IN
         IF c = 0 THEN ServiceStmts(current, services, i + 1, nid, additions)
         ELSE
         LET currentService == current.Services[c]
             its == ItemStmts(currentService.Items, newService.Items, 1,
                              newService.ID, nid, additions)
             rest == ServiceStmts(current, services, i + 1, its.nid, additions)
             tail == Out(its.stmts \o rest.stmts, rest.nid) IN
         IF serviceChanged(currentService, newService)
         THEN Then(SecStmt("UPDATE", "section_service", newService.ID, NoID,
                           ServiceRow(newService)), tail)
         ELSE tail
    ELSE LET its == NewServiceItemStmts(newService.Items, 1, nid, nid + 1)
             rest == ServiceStmts(current, services, i + 1, its.nid, additions) IN
         Then(SecStmt("INSERT", "section_service", nid, NoID, ServiceRow(newService)),
              Out(its.stmts \o rest.stmts, rest.nid))

\* the mutation statements of one call, in the order the code sends them
UpdaterStmts(current, updated, nid, additions) ==
    LET ps == ParagraphStmts(current, updated.Paragraphs, 1, nid, additions)
        ss == ServiceStmts(current, updated.Services, 1, ps.nid, additions)
        tail == Out(ps.stmts \o ss.stmts, ss.nid) IN
    IF sectionChanged(current, updated)
    THEN Then(SecStmt("UPDATE", "sections", NoID, NoID, RootRow(updated)), tail)
    ELSE tail

UpdateSectionStmts(current, updated, nid) == UpdaterStmts(current, updated, nid, FALSE)
UpdateSectionWithAdditionsStmts(current, updated, nid) == UpdaterStmts(current, updated, nid, TRUE)

(***************************************************************************)
(* The store's side of the updater's statements.                           *)
(***************************************************************************)
\* section_service_items.service_id REFERENCES section_service(id)
ItemServiceFKey(db, s) == \E i \in 1..Len(db.Services) : db.Services[i].ID = s.parent

SecAccepted(db, s) ==
    IF s.op = "INSERT" /\ s.table = "section_service_items"
    THEN ItemServiceFKey(db, s)
    ELSE TRUE

SetRow(record, row) == [f \in DOMAIN record |-> IF f \in DOMAIN row THEN row[f] ELSE record[f]]

\* an update that replaces the list by the records it addressed
keepOnlyUpdated(records, id, row) ==
    SelectSeq([i \in 1..Len(records) |-> SetRow(records[i], row)], LAMBDA r : r.ID = id)

\* UPDATE ... WHERE id = @id on a list of records
UpdateByID(records, id, row) ==
    [i \in 1..Len(records) |-> IF records[i].ID = id THEN SetRow(records[i], row) ELSE records[i]]

SecEffect(db, s) ==
    CASE s.op = "UPDATE" /\ s.table = "sections" -> SetRow(db, s.row)
      [] s.op = "UPDATE" /\ s.table = "section_paragraphs" ->
            [db EXCEPT !.Paragraphs = UpdateByID(db.Paragraphs, s.id, s.row)]
      [] s.op = "INSERT" /\ s.table = "section_paragraphs" ->
            [db EXCEPT !.Paragraphs =
                Append(db.Paragraphs, [ID |-> s.id, Order |-> s.row.Order, Content |-> s.row.Content])]
      [] s.op = "UPDATE" /\ s.table = "section_service" ->
            [db EXCEPT !.Services = UpdateByID(db.Services, s.id, s.row)]
      [] s.op = "INSERT" /\ s.table = "section_service" ->
            [db EXCEPT !.Services =
                Append(db.Services, [ID |-> s.id, Title |-> s.row.Title, Price |-> s.row.Price,
                                     Description |-> s.row.Description, Items |-> <<>>])]
      [] s.op = "UPDATE" /\ s.table = "section_service_items" ->
            [db EXCEPT !.Services =
                [i \in 1..Len(db.Services) |->
                    [db.Services[i] EXCEPT !.Items = UpdateByID(db.Services[i].Items, s.id, s.row)]]]
      [] s.op = "INSERT" /\ s.table = "section_service_items" ->
            [db EXCEPT !.Services =
                [i \in 1..Len(db.Services) |->
                    IF db.Services[i].ID = s.parent
                    THEN [db.Services[i] EXCEPT !.Items =
                            Append(db.Services[i].Items,
                                   [ID |-> s.id, Order |-> s.row.Order, Price |-> s.row.Price,
                                    Content |-> s.row.Content,
                                    ContentAsList |-> s.row.ContentAsList])]
                    ELSE db.Services[i]]]
      [] OTHER -> db

RECURSIVE SecRunFrom(_, _, _, _)
SecRunFrom(db, stmts, i, f) ==
    IF i > Len(stmts) THEN [fail |-> 0, db |-> db]
    ELSE IF i = f \/ ~SecAccepted(db, stmts[i]) THEN [fail |-> i, db |-> db]
    ELSE SecRunFrom(SecEffect(db, stmts[i]), stmts, i + 1, f)

\* tx.Commit when every statement succeeded, the deferred tx.Rollback otherwise
UpdaterOutcome(pre, run) == IF run.fail = 0 THEN run.db ELSE pre

\* defer tx.Rollback(ctx) runs on every return after Begin
UpdaterRollbackDeferred == TRUE

\* an updater that compares the section's version at commit
VersionCompare(snap, db) == snap # db

\* the commit compares nothing: a snapshot the store has moved away from is
\* no reason to fail
StaleSnapshotRejected(snap, db) == FALSE

Mutations(stmts) == SelectSeq(stmts, LAMBDA s : s.op \in {"UPDATE", "INSERT"})

(***************************************************************************)
(* The editors: a client reads the section, edits its copy and passes it   *)
(* to UpdateSection or UpdateSectionWithAdditions.                         *)
(***************************************************************************)
UpdaterKinds == {"UpdateSection", "UpdateSectionWithAdditions"}

InitEditors(edits, calls) ==
    /\ section = InitialSection
    /\ nextID = 4
    /\ pc = [e \in Editors |-> "edit"]
    /\ payload = [e \in Editors |-> InitialSection]
    /\ snapshot = [e \in Editors |-> InitialSection]
    /\ kind = [e \in Editors |-> "UpdateSection"]
    /\ result = [e \in Editors |-> "none"]
    /\ fault = [e \in Editors |-> 0]
    /\ stmtLog = [e \in Editors |-> <<>>]
    /\ resubmit = [e \in Editors |-> FALSE]
    /\ clean = [e \in Editors |-> FALSE]
    /\ editsLeft = edits
    /\ callsLeft = calls

InitSection == InitEditors([e \in Editors |-> IF e = "e1" THEN MaxEdits ELSE 0],
                           [e \in Editors |-> IF e = "e1" THEN MaxCalls ELSE 0])

InitAtomicEditor == InitEditors([e \in Editors |-> IF e = "e1" THEN MaxAtomicEdits ELSE 0],
                                [e \in Editors |-> IF e = "e1" THEN MaxCalls ELSE 0])

InitRace == InitEditors([e \in Editors |-> MaxRaceEdits], [e \in Editors |-> MaxRaceCalls])

\* a step of an editor leaves the rest of the system alone
SectionOnly == focus # "cart" /\ UNCHANGED <<cartVars, filterVars, poolVars, reqVars, focus>>

\* the client replaces its payload p by p2
Edit(e, p2) ==
    /\ pc[e] \in {"edit", "done"}
    /\ editsLeft[e] > 0
    /\ p2 # payload[e]
    /\ payload' = [payload EXCEPT ![e] = p2]
    /\ editsLeft' = [editsLeft EXCEPT ![e] = @ - 1]
    /\ pc' = [pc EXCEPT ![e] = "edit"]
    /\ UNCHANGED <<section, nextID, snapshot, kind, result, fault, stmtLog,
                   resubmit, clean, callsLeft, openTx>>
    /\ SectionOnly

other(v) == IF v = "a" THEN "b" ELSE "a"
otherInt(n) == IF n = 1 THEN 2 ELSE 1

EditRoot(e) ==
    \E f \in {"Name", "Title", "Image", "BGImage"} :
        Edit(e, [payload[e] EXCEPT ![f] = other(@)])

EditParagraph(e) ==
    \E i \in 1..Len(payload[e].Paragraphs) :
        \/ Edit(e, [payload[e] EXCEPT !.Paragraphs[i].Order = otherInt(@)])
        \/ Edit(e, [payload[e] EXCEPT !.Paragraphs[i].Content = other(@)])

EditService(e) ==
    \E i \in 1..Len(payload[e].Services) :
        \/ Edit(e, [payload[e] EXCEPT !.Services[i].Title = other(@)])
        \/ Edit(e, [payload[e] EXCEPT !.Services[i].Price = otherInt(@)])
        \/ Edit(e, [payload[e] EXCEPT !.Services[i].Description = other(@)])

EditItem(e) ==
    \E i \in 1..Len(payload[e].Services) :
        \E j \in 1..Len(payload[e].Services[i].Items) :
            \/ Edit(e, [payload[e] EXCEPT !.Services[i].Items[j].Order = otherInt(@)])
            \/ Edit(e, [payload[e] EXCEPT !.Services[i].Items[j].Price = otherInt(@)])
            \/ Edit(e, [payload[e] EXCEPT !.Services[i].Items[j].Content = other(@)])
            \/ Edit(e, [payload[e] EXCEPT !.Services[i].Items[j].ContentAsList = ~@])

NewParagraph == [ID |-> NoID, Order |-> 2, Content |-> "b"]
NewItem == [ID |-> NoID, Order |-> 2, Price |-> 2, Content |-> "b", ContentAsList |-> FALSE]
NewService(items) == [ID |-> NoID, Title |-> "b", Price |-> 2, Description |-> "b", Items |-> items]

\* records without identifier: the client asks for their creation
AddRecord(e) ==
    \/ Edit(e, [payload[e] EXCEPT !.Paragraphs = Append(@, NewParagraph)])
    \/ \E items \in {<<>>, <<NewItem>>} :
          Edit(e, [payload[e] EXCEPT !.Services = Append(@, NewService(items))])
    \/ \E i \in 1..Len(payload[e].Services) :
          Edit(e, [payload[e] EXCEPT !.Services[i].Items = Append(@, NewItem)])

\* a record whose identifier the store does not hold
OrphanRecord(e) ==
    \/ \E i \in 1..Len(payload[e].Paragraphs) :
          Edit(e, [payload[e] EXCEPT !.Paragraphs[i].ID = GhostID])
    \/ \E i \in 1..Len(payload[e].Services) :
          \/ Edit(e, [payload[e] EXCEPT !.Services[i].ID = GhostID])
          \/ \E j \in 1..Len(payload[e].Services[i].Items) :
                Edit(e, [payload[e] EXCEPT !.Services[i].Items[j].ID = GhostID])

\* the payload carries a record twice
RepeatRecord(e) ==
    \E i \in 1..Len(payload[e].Paragraphs) :
        Edit(e, [payload[e] EXCEPT !.Paragraphs = Append(@, @[i])])

\* the payload leaves a stored record out
DropRecord(e) ==
    \/ \E i \in 1..Len(payload[e].Paragraphs) :
          Edit(e, [payload[e] EXCEPT !.Paragraphs = RemoveAt(@, i)])
    \/ \E i \in 1..Len(payload[e].Services) :
          \/ Edit(e, [payload[e] EXCEPT !.Services = RemoveAt(@, i)])
          \/ \E j \in 1..Len(payload[e].Services[i].Items) :
                Edit(e, [payload[e] EXCEPT !.Services[i].Items = RemoveAt(@, j)])

\* the client reads the section again and starts from what the store holds
Refetch(e) ==
    /\ pc[e] = "done"
    /\ callsLeft[e] > 0
    /\ payload[e] # section
    /\ payload' = [payload EXCEPT ![e] = section]
    /\ pc' = [pc EXCEPT ![e] = "edit"]
    /\ UNCHANGED <<section, nextID, snapshot, kind, result, fault, stmtLog,
                   resubmit, clean, editsLeft, callsLeft, openTx>>
    /\ SectionOnly

\* the call starts: FindSectionByID reads currentSection on a connection of
\* its own, before the transaction begins
Call(e, k) ==
    /\ pc[e] \in {"edit", "done"}
    /\ callsLeft[e] > 0
    /\ snapshot' = [snapshot EXCEPT ![e] = section]
    /\ kind' = [kind EXCEPT ![e] = k]
    /\ resubmit' = [resubmit EXCEPT ![e] =
            pc[e] = "done" /\ result[e] = "ok" /\ clean[e] /\ kind[e] = k]
    /\ callsLeft' = [callsLeft EXCEPT ![e] = @ - 1]
    /\ pc' = [pc EXCEPT ![e] = "called"]
    /\ UNCHANGED <<section, nextID, payload, result, fault, stmtLog, clean,
                   editsLeft, openTx>>
    /\ SectionOnly

CallStmts(e) ==
    IF kind[e] = "UpdateSection"
    THEN UpdateSectionStmts(snapshot[e], payload[e], nextID)
    ELSE UpdateSectionWithAdditionsStmts(snapshot[e], payload[e], nextID)

\* the transaction of the call: Begin, the statements, Commit.  f is the
\* statement the store fails (0: none).
Finish(e) ==
    LET gen == CallStmts(e)
        stmts == <<SecBegin>> \o gen.stmts \o <<SecCommit>> IN
    /\ pc[e] = "called"
    /\ gen.nid <= MaxIDs + 1
    /\ \E f \in 0..Len(stmts) :
        LET run == SecRunFrom(section, stmts, 1, f)
            failed == run.fail # 0 \/ StaleSnapshotRejected(snapshot[e], section)
            post == IF failed THEN section ELSE UpdaterOutcome(section, run)
            sent == SubSeq(stmts, 1, IF run.fail = 0 THEN Len(stmts) ELSE run.fail) IN
        /\ section' = post
        /\ nextID' = gen.nid
        /\ result' = [result EXCEPT ![e] = IF failed THEN "err" ELSE "ok"]
        /\ fault' = [fault EXCEPT ![e] = run.fail]
        /\ stmtLog' = [stmtLog EXCEPT ![e] = Mutations(sent)]
        /\ clean' = [x \in Editors |->
                        IF x = e THEN ~failed
                        ELSE clean[x] /\ post = section]
        /\ openTx' = openTx + (IF run.fail > 1 /\ ~UpdaterRollbackDeferred THEN 1 ELSE 0)
    /\ pc' = [pc EXCEPT ![e] = "done"]
    /\ UNCHANGED <<payload, snapshot, kind, resubmit, editsLeft, callsLeft>>
    /\ SectionOnly

NextSection ==
    \E e \in Editors :
        \/ EditRoot(e)
        \/ EditParagraph(e)
        \/ EditService(e)
        \/ EditItem(e)
        \/ AddRecord(e)
        \/ OrphanRecord(e)
        \/ RepeatRecord(e)
        \/ DropRecord(e)
        \/ Refetch(e)
        \/ \E k \in UpdaterKinds : Call(e, k)
        \/ Finish(e)

(***************************************************************************)
(* The calls that insert services with their items: CreateSection and      *)
(* AddServiceToSection, beside UpdateSectionWithAdditions above.           *)
(***************************************************************************)
InsertKinds == {"CreateSection", "AddServiceToSection"}

\* the item row as CreateSection's statement names its columns: the third
\* column of its list is order, the table's is order_idx
CreateItemRow(i) == [order |-> i.Order, Price |-> i.Price, Content |-> i.Content,
                     ContentAsList |-> i.ContentAsList]

\* the loop over service.Items of CreateSection: the statement carries
\* service.ID of the payload as service_id
RECURSIVE CreateItemStmts(_, _, _, _)
CreateItemStmts(items, i, serviceID, nid) ==
    IF i > Len(items) THEN Out(<<>>, nid)
    ELSE Then(SecStmt("INSERT", "section_service_items", nid, serviceID,
                      CreateItemRow(items[i])),
              CreateItemStmts(items, i + 1, serviceID, nid + 1))

\* the loop over section.Paragraphs of CreateSection
RECURSIVE CreateParagraphStmts(_, _, _)
CreateParagraphStmts(paragraphs, i, nid) ==
    IF i > Len(paragraphs) THEN Out(<<>>, nid)
    ELSE Then(SecStmt("INSERT", "section_paragraphs", nid, NoID, ParagraphRow(paragraphs[i])),
              CreateParagraphStmts(paragraphs, i + 1, nid + 1))

\* the loop over section.Services of CreateSection: the service row is
\* inserted under the identifier generated in the loop body
RECURSIVE CreateServiceStmts(_, _, _)
CreateServiceStmts(services, i, nid) ==
    IF i > Len(services) THEN Out(<<>>, nid)
    ELSE LET service == services[i]
             its == CreateItemStmts(service.Items, 1, service.ID, nid + 1)
             rest == CreateServiceStmts(services, i + 1, its.nid) IN
         Then(SecStmt("INSERT", "section_service", nid, NoID, ServiceRow(service)),
              Out(its.stmts \o rest.stmts, rest.nid))

\* the statements of CreateSection: the root row, the paragraphs, then each
\* service followed by its items
CreateSectionStmts(sec, nid) ==
    LET ps == CreateParagraphStmts(sec.Paragraphs, 1, nid + 1)
        ss == CreateServiceStmts(sec.Services, 1, ps.nid) IN
    Then(SecStmt("INSERT", "sections", nid, NoID, RootRow(sec)),
         Out(ps.stmts \o ss.stmts, ss.nid))

\* the statements of AddServiceToSection: service.ID is generated first and
\* every item gets item.ServiceID = service.ID
AddServiceToSectionStmts(service, nid) ==
    LET its == NewServiceItemStmts(service.Items, 1, nid, nid + 1) IN
    Then(SecStmt("INSERT", "section_service", nid, NoID, ServiceRow(service)), its)

\* the columns of section_service_items a statement may name
ItemColumns == {"Order", "Price", "Content", "ContentAsList"}

ColumnsExist(s) ==
    s.op = "INSERT" /\ s.table = "section_service_items" => DOMAIN s.row \subseteq ItemColumns

\* the store running CreateSection's statements: known holds the services
\* a service_id may reference; the result is the statement that failed, 0
\* for none
RECURSIVE CreateRunFrom(_, _, _, _)
CreateRunFrom(known, stmts, i, f) ==
    IF i > Len(stmts) THEN 0
    ELSE LET s == stmts[i] IN
         IF \/ i = f
            \/ ~ColumnsExist(s)
            \/ s.op = "INSERT" /\ s.table = "section_service_items" /\ s.parent \notin known
         THEN i
         ELSE CreateRunFrom(IF s.op = "INSERT" /\ s.table = "section_service"
                            THEN known \cup {s.id} ELSE known,
                            stmts, i + 1, f)

ServiceIDs(db) == {db.Services[i].ID : i \in 1..Len(db.Services)}

\* CreateSection with the editor's payload.  The rows of a committed call
\* belong to the section it creates; the rows of the stored section stay.
CreateSection(e) ==
    /\ pc[e] \in {"edit", "done"}
    /\ callsLeft[e] > 0
    /\ CreateSectionStmts(payload[e], nextID).nid <= MaxIDs + 1
    /\ \E f \in 0..(Len(CreateSectionStmts(payload[e], nextID).stmts) + 2) :
        LET gen == CreateSectionStmts(payload[e], nextID)
            stmts == <<SecBegin>> \o gen.stmts \o <<SecCommit>>
            failed == CreateRunFrom(ServiceIDs(section), stmts, 1, f)
            sent == SubSeq(stmts, 1, IF failed = 0 THEN Len(stmts) ELSE failed) IN
        /\ nextID' = gen.nid
        /\ result' = [result EXCEPT ![e] = IF failed = 0 THEN "ok" ELSE "err"]
        /\ fault' = [fault EXCEPT ![e] = failed]
        /\ stmtLog' = [stmtLog EXCEPT ![e] = Mutations(sent)]
        /\ clean' = [clean EXCEPT ![e] = failed = 0]
    /\ kind' = [kind EXCEPT ![e] = "CreateSection"]
    /\ callsLeft' = [callsLeft EXCEPT ![e] = @ - 1]
    /\ pc' = [pc EXCEPT ![e] = "done"]
    /\ UNCHANGED <<section, payload, snapshot, resubmit, editsLeft, openTx>>
    /\ SectionOnly

\* the services a client passes to AddServiceToSection
AddedServices ==
    {[NewService(items) EXCEPT !.ID = id] :
        items \in {<<>>, <<NewItem>>, <<NewItem, NewItem>>},
        id \in {NoID, InitialSection.Services[1].ID}}

\* AddServiceToSection on the stored section (exists) or on an identifier
\* no section has
AddServiceToSection(e) ==
    /\ pc[e] \in {"edit", "done"}
    /\ callsLeft[e] > 0
    /\ \E service \in AddedServices, exists \in BOOLEAN :
        LET gen == IF exists THEN AddServiceToSectionStmts(service, nextID)
                   ELSE Out(<<>>, nextID)
            stmts == <<SecBegin>> \o gen.stmts \o <<SecCommit>> IN
        /\ gen.nid <= MaxIDs + 1
        /\ \E f \in 0..Len(stmts) :
            LET run == SecRunFrom(section, stmts, 1, f)
                failed == run.fail # 0 \/ ~exists
                sent == IF exists
                        THEN SubSeq(stmts, 1, IF run.fail = 0 THEN Len(stmts) ELSE run.fail)
                        ELSE <<>> IN
            /\ section' = IF failed THEN section ELSE UpdaterOutcome(section, run)
            /\ nextID' = gen.nid
            /\ result' = [result EXCEPT ![e] = IF failed THEN "err" ELSE "ok"]
            /\ fault' = [fault EXCEPT ![e] = run.fail]
            /\ stmtLog' = [stmtLog EXCEPT ![e] = Mutations(sent)]
            /\ clean' = [clean EXCEPT ![e] = ~failed]
    /\ kind' = [kind EXCEPT ![e] = "AddServiceToSection"]
    /\ callsLeft' = [callsLeft EXCEPT ![e] = @ - 1]
    /\ pc' = [pc EXCEPT ![e] = "done"]
    /\ UNCHANGED <<payload, snapshot, resubmit, editsLeft, openTx>>
    /\ SectionOnly

NextInsert ==
    \E e \in Editors :
        \/ AddRecord(e)
        \/ DropRecord(e)
        \/ OrphanRecord(e)
        \/ Call(e, "UpdateSectionWithAdditions")
        \/ Finish(e)
        \/ CreateSection(e)
        \/ AddServiceToSection(e)

(***************************************************************************)
(* The paginated filter operations and the product read paths.             *)
(***************************************************************************)
\* rows matching the conditions of a filter call
MaxRows == 5
\* gallery images of a product
MaxGallery == 2
\* requested pages, and requested limits below the defaults
MaxPage == 3
MaxSmallLimit == 3

DefaultLimit == 20
MaxLimit == 100
DefaultCatalogPageSize == 16

PageInputs == 0..MaxPage
LimitInputs == (-1..MaxSmallLimit)
               \cup {DefaultCatalogPageSize, DefaultLimit, MaxLimit, MaxLimit + 1}

Max(a, b) == IF a >= b THEN a ELSE b

\* if filters.Page < 1 { filters.Page = 1 }
NormalizePage(page) == IF page < 1 THEN 1 ELSE page

\* if filters.Limit < 1 || filters.Limit > 100 { filters.Limit = <default> }
NormalizeLimit(limit, default) == IF limit < 1 \/ limit > MaxLimit THEN default ELSE limit

\* FilterEventKinds: if params.Limit <= 0 { params.Limit = 20 }
EventKindLimit(limit) == IF limit <= 0 THEN DefaultLimit ELSE limit
EventKindPage(page) == IF page <= 0 THEN 1 ELSE page

\* a division that rounds down
FloorDiv(total, limit) == total \div limit

\* int(math.Ceil(float64(total) / float64(limit))), limit >= 1
CeilDiv(total, limit) ==
    IF total % limit = 0 THEN total \div limit ELSE (total \div limit) + 1

\* the rows of LIMIT @limit OFFSET @offset over a result of n rows
Returned(n, limit, offset) == Min(limit, Max(0, n - offset))

\* the result page of the operations that report page metadata:
\* total from the count query, rows the number the data query pages over
PageResult(op, reqPage, reqLimit, page, limit, total, rows) ==
    LET offset == (page - 1) * limit
        totalPages == CeilDiv(total, limit) IN
    [op |-> op, reqPage |-> reqPage, reqLimit |-> reqLimit,
     Page |-> page, Limit |-> limit, queryLimit |-> limit, Offset |-> offset,
     Total |-> total, Items |-> Returned(rows, limit, offset),
     paged |-> TRUE, TotalPages |-> totalPages,
     HasNext |-> page < totalPages, HasPrevious |-> page > 1]

\* EventKindFilterResult: Page and Limit are copied from the parameters
\* before they are normalized; there is no page metadata
EventKindResult(reqPage, reqLimit, total) ==
    LET limit == EventKindLimit(reqLimit)
        page == EventKindPage(reqPage)
        offset == (page - 1) * limit IN
    [op |-> "FilterEventKinds", reqPage |-> reqPage, reqLimit |-> reqLimit,
     Page |-> reqPage, Limit |-> reqLimit, queryLimit |-> limit, Offset |-> offset,
     Total |-> total, Items |-> Returned(total, limit, offset),
     paged |-> FALSE, TotalPages |-> 0, HasNext |-> FALSE, HasPrevious |-> FALSE]

NoPage == [op |-> "none"]
NoRead == [path |-> "none", rows |-> {}]
NoQuery == [op |-> "none"]

InitCatalogIdle ==
    /\ available = [p \in Products |-> TRUE]
    /\ gallery = [p \in Products |-> 0]
    /\ filterResult = NoPage
    /\ readResult = NoRead
    /\ compiled = NoQuery

\* the products table: available BOOLEAN, quantity INTEGER NOT NULL, and
\* the product's rows of images_products
InitCatalog ==
    /\ available \in [Products -> BOOLEAN]
    /\ gallery \in [Products -> {0, MaxGallery}]
    /\ filterResult = NoPage
    /\ readResult = NoRead
    /\ compiled = NoQuery

\* a read operation answers one request: its result depends on the store
\* and the parameters only
NoResultYet == filterResult = NoPage /\ readResult = NoRead

\* a step of a read operation leaves the rest of the system alone
ReadOnly ==
    UNCHANGED <<cartVars, secVars, poolVars, reqVars, available, gallery, compiled,
                openTx, focus>>

\* the rows of products LEFT JOIN images_products: one per gallery image,
\* one for a product without gallery
RECURSIVE JoinRowsFrom(_)
JoinRowsFrom(i) ==
    IF i > Len(ProductOrder) THEN 0
    ELSE Max(1, gallery[ProductOrder[i]]) + JoinRowsFrom(i + 1)

ProductJoinRows == JoinRowsFrom(1)
\* the groups of GROUP BY prod.id, ...
ProductGroups == Len(ProductOrder)

\* the products of the given positions of the ordered result
OnPage(limit, offset) ==
    {ProductOrder[i] : i \in {j \in 1..Len(ProductOrder) : j > offset /\ j <= offset + limit}}

\* scanProducts, FindProductByID, FindCatalogProductDetail: the row as stored
RawProduct(p) == [id |-> p, available |-> available[p], quantity |-> stock[p]]

\* scanCatalogProducts: if product.Quantity <= 0 { product.Available = false }
ScannedCatalogProduct(p) ==
    [id |-> p, available |-> IF stock[p] <= 0 THEN FALSE ELSE available[p],
     quantity |-> stock[p]]

FilterSections(reqPage, reqLimit, n) ==
    /\ NoResultYet
    /\ filterResult' = PageResult("FilterSections", reqPage, reqLimit, NormalizePage(reqPage),
                          NormalizeLimit(reqLimit, DefaultLimit), n, n)
    /\ readResult' = NoRead
    /\ ReadOnly

FilterWizards(reqPage, reqLimit, n) ==
    /\ NoResultYet
    /\ filterResult' = PageResult("FilterWizards", reqPage, reqLimit, NormalizePage(reqPage),
                          NormalizeLimit(reqLimit, DefaultLimit), n, n)
    /\ readResult' = NoRead
    /\ ReadOnly

FilterEventKinds(reqPage, reqLimit, n) ==
    /\ NoResultYet
    /\ filterResult' = EventKindResult(reqPage, reqLimit, n)
    /\ readResult' = NoRead
    /\ ReadOnly

\* no conditions: the count query counts the rows of the joins, the data
\* query pages over the groups
FilterProducts(reqPage, reqLimit) ==
    LET r == PageResult("FilterProducts", reqPage, reqLimit, NormalizePage(reqPage),
                        NormalizeLimit(reqLimit, DefaultLimit),
                        ProductJoinRows, ProductGroups) IN
    /\ NoResultYet
    /\ filterResult' = r
    /\ readResult' = [path |-> "FilterProducts",
                rows |-> {RawProduct(p) : p \in OnPage(r.queryLimit, r.Offset)}]
    /\ ReadOnly

\* no conditions: count and data query both read the view catalog_products
FilterCatalogProducts(reqPage, reqLimit) ==
    LET r == PageResult("FilterCatalogProducts", reqPage, reqLimit, NormalizePage(reqPage),
                        NormalizeLimit(reqLimit, DefaultCatalogPageSize),
                        Len(ProductOrder), Len(ProductOrder)) IN
    /\ NoResultYet
    /\ filterResult' = r
    /\ readResult' = [path |-> "FilterCatalogProducts",
                rows |-> {ScannedCatalogProduct(p) : p \in OnPage(r.queryLimit, r.Offset)}]
    /\ ReadOnly

FindProductByID(p) ==
    /\ NoResultYet
    /\ readResult' = [path |-> "FindProductByID", rows |-> {RawProduct(p)}]
    /\ filterResult' = NoPage
    /\ ReadOnly

FindCatalogProductDetail(p) ==
    /\ NoResultYet
    /\ readResult' = [path |-> "FindCatalogProductDetail", rows |-> {RawProduct(p)}]
    /\ filterResult' = NoPage
    /\ ReadOnly

\* the related products: WHERE p.available = true, the flag as stored
FindRelatedProducts(p) ==
    /\ NoResultYet
    /\ readResult' = [path |-> "FindRelatedProducts",
                rows |-> {RawProduct(q) : q \in {x \in Products \ {p} : available[x]}}]
    /\ filterResult' = NoPage
    /\ ReadOnly

NextFilter ==
    \/ \E rp \in PageInputs, rl \in LimitInputs, n \in 0..MaxRows : FilterSections(rp, rl, n)
    \/ \E rp \in PageInputs, rl \in LimitInputs, n \in 0..MaxRows : FilterWizards(rp, rl, n)
    \/ \E rp \in PageInputs, rl \in LimitInputs, n \in 0..MaxRows : FilterEventKinds(rp, rl, n)
    \/ \E rp \in PageInputs, rl \in LimitInputs : FilterProducts(rp, rl)
    \/ \E rp \in PageInputs, rl \in LimitInputs : FilterCatalogProducts(rp, rl)
    \/ \E p \in Products : FindProductByID(p)
    \/ \E p \in Products : FindCatalogProductDetail(p)
    \/ \E p \in Products : FindRelatedProducts(p)

(***************************************************************************)
(* The connection pool (GetConn, GetConnWithContext) and the operations'   *)
(* use of it.  An operation is the list of its pool instructions.          *)
(***************************************************************************)
\* connections of the pool
MaxConns == 2

Procs == {"t1", "t2"}

\* one connection, released by the deferred Release at return
SimpleOp == <<"acquire", "release">>
\* FindSectionByID acquires and releases, then the updater acquires
SequentialOp == <<"acquire", "release", "acquire", "release">>
\* the caller holds its connection while the callee acquires another
NestedOp == <<"acquire", "acquire", "release", "release">>

PoolProgram(op) ==
    CASE op = "FilterSections" -> SimpleOp
      [] op = "UpdateSectionWithAdditions" -> SequentialOp
      [] op = "FindCatalogProducts" -> NestedOp
      [] op = "SCreateProducts" -> NestedOp
      [] op = "FindCartByID" -> NestedOp

PoolOps == {"FilterSections", "UpdateSectionWithAdditions", "FindCatalogProducts",
            "SCreateProducts", "FindCartByID"}

InitPool ==
    /\ free = MaxConns
    /\ held = [p \in Procs |-> 0]
    /\ running = [p \in Procs |-> "none"]
    /\ ip = [p \in Procs |-> 1]
    /\ peak = [p \in Procs |-> 0]

PoolOnly == UNCHANGED <<cartVars, secVars, filterVars, reqVars, openTx, focus>>

Start(p, op) ==
    /\ running[p] = "none"
    /\ running' = [running EXCEPT ![p] = op]
    /\ ip' = [ip EXCEPT ![p] = 1]
    /\ peak' = [peak EXCEPT ![p] = 0]
    /\ UNCHANGED <<free, held>>
    /\ PoolOnly

\* dbPool.Acquire: takes a free connection, waits while there is none
Acquire(p) ==
    /\ running[p] # "none"
    /\ ip[p] <= Len(PoolProgram(running[p]))
    /\ PoolProgram(running[p])[ip[p]] = "acquire"
    /\ free > 0
    /\ free' = free - 1
    /\ held' = [held EXCEPT ![p] = @ + 1]
    /\ peak' = [peak EXCEPT ![p] = Max(@, held[p] + 1)]
    /\ ip' = [ip EXCEPT ![p] = @ + 1]
    /\ UNCHANGED running
    /\ PoolOnly

\* conn.Release() of a function that returns
Release(p) ==
    /\ running[p] # "none"
    /\ ip[p] <= Len(PoolProgram(running[p]))
    /\ PoolProgram(running[p])[ip[p]] = "release"
    /\ free' = free + 1
    /\ held' = [held EXCEPT ![p] = @ - 1]
    /\ ip' = [ip EXCEPT ![p] = @ + 1]
    /\ UNCHANGED <<running, peak>>
    /\ PoolOnly

\* Acquire returns an error (the context ended): the operation returns the
\* error, the deferred Release of every connection it holds runs
AcquireFails(p) ==
    /\ running[p] # "none"
    /\ ip[p] <= Len(PoolProgram(running[p]))
    /\ PoolProgram(running[p])[ip[p]] = "acquire"
    /\ free' = free + held[p]
    /\ held' = [held EXCEPT ![p] = 0]
    /\ running' = [running EXCEPT ![p] = "none"]
    /\ ip' = [ip EXCEPT ![p] = 1]
    /\ UNCHANGED peak
    /\ PoolOnly

Return(p) ==
    /\ running[p] # "none"
    /\ ip[p] > Len(PoolProgram(running[p]))
    /\ running' = [running EXCEPT ![p] = "none"]
    /\ ip' = [ip EXCEPT ![p] = 1]
    /\ UNCHANGED <<free, held, peak>>
    /\ PoolOnly

NextPool ==
    \E p \in Procs :
        \/ \E op \in PoolOps : Start(p, op)
        \/ Acquire(p)
        \/ Release(p)
        \/ AcquireFails(p)
        \/ Return(p)

(***************************************************************************)
(* The query builders: the ORDER BY resolvers and the condition builders   *)
(* of the filter operations.  An ORDER BY clause is the sequence of its    *)
(* sort keys [col, dir]; a condition list is a sequence of                 *)
(* [text, names], names the named arguments the text refers to.            *)
(***************************************************************************)
SearchModes == {"fulltext", "exact", "fuzzy"}
SearchTerms == {"", "mesa"}

\* the sort tokens a client sends: the ones a resolver names, other
\* spellings of them and strings no resolver names
SortTokens ==
    {"", "relevance", "Relevance", "name", "name_asc", "name_desc", "NAME_DESC",
     "price_asc", "price_desc", "newest", "oldest", "recent", "category",
     "title_asc", "title_desc", "created_asc", "created_desc",
     "updated_asc", "updated_desc", "paragraphs_asc", "paragraphs_desc",
     "services_asc", "services_desc", "quantity_asc", "quantity_desc",
     "category_asc", "category_desc", "available_first", "available_last",
     "eventkind_asc", "eventkind_desc", "product_count_asc", "product_count_desc",
     "step_order", "event_start_asc", "event_start_desc", "event_kind_asc",
     "event_kind_desc", "request_type_asc", "request_type_desc",
     "status_asc", "status_desc", "filename", "size", "created_at", "createdAt",
     "date", "bogus", "name; DROP TABLE products"}

SortOrders == {"", "asc", "Asc", "ASC", "desc", "DESC", "up", "ASC; DROP TABLE images"}

\* strings.ToLower on the tokens above
ToLower(t) ==
    CASE t = "Relevance" -> "relevance"
      [] t = "NAME_DESC" -> "name_desc"
      [] t = "createdAt" -> "createdat"
      [] t = "name; DROP TABLE products" -> "name; drop table products"
      [] OTHER -> t

\* strings.ToUpper on the sort orders above
ToUpper(t) ==
    CASE t \in {"asc", "Asc"} -> "ASC"
      [] t = "desc" -> "DESC"
      [] t = "up" -> "UP"
      [] OTHER -> t

Key(col, dir) == [col |-> col, dir |-> dir]
Rank == Key("search_rank", "DESC")

\* filters.Search != "" && filters.SearchMode == SearchModeFullText
Ranked(search, mode) == search # "" /\ mode = "fulltext"

buildProductsOrderByClause(search, mode, sort) ==
    LET t == ToLower(sort) IN
    IF Ranked(search, mode)
    THEN CASE t \in {"relevance", ""} -> <<Rank, Key("name", "ASC")>>
           [] t \in {"name_asc", "name"} -> <<Key("name", "ASC")>>
           [] t = "name_desc" -> <<Key("name", "DESC")>>
           [] t = "price_asc" -> <<Key("price", "ASC"), Rank>>
           [] t = "price_desc" -> <<Key("price", "DESC"), Rank>>
           [] OTHER -> <<Rank, Key("name", "ASC")>>
    ELSE CASE t \in {"name_asc", "name", ""} -> <<Key("name", "ASC")>>
           [] t = "name_desc" -> <<Key("name", "DESC")>>
           [] t = "price_asc" -> <<Key("price", "ASC")>>
           [] t = "price_desc" -> <<Key("price", "DESC")>>
           [] t = "newest" -> <<Key("id", "DESC")>>
           [] t = "oldest" -> <<Key("id", "ASC")>>
           [] t = "category" -> <<Key("category", "ASC"), Key("name", "ASC")>>
           [] OTHER -> <<Key("name", "ASC")>>

buildCatalogProductOrderByClause(search, mode, sort) ==
    LET t == ToLower(sort) IN
    IF Ranked(search, mode)
    THEN CASE t \in {"relevance", ""} -> <<Rank, Key("name", "ASC")>>
           [] t \in {"name_asc", "name"} -> <<Key("name", "ASC")>>
           [] t = "name_desc" -> <<Key("name", "DESC")>>
           [] t = "quantity_asc" -> <<Key("quantity", "ASC"), Rank>>
           [] t = "quantity_desc" -> <<Key("quantity", "DESC"), Rank>>
           [] t = "category_asc" -> <<Key("category_name", "ASC"), Rank>>
           [] t = "category_desc" -> <<Key("category_name", "DESC"), Rank>>
           [] t = "available_first" -> <<Key("available", "DESC"), Rank, Key("name", "ASC")>>
           [] OTHER -> <<Rank, Key("name", "ASC")>>
    ELSE CASE t \in {"name_asc", "name", ""} -> <<Key("name", "ASC")>>
           [] t = "name_desc" -> <<Key("name", "DESC")>>
           [] t = "quantity_asc" -> <<Key("quantity", "ASC")>>
           [] t = "quantity_desc" -> <<Key("quantity", "DESC")>>
           [] t = "category_asc" -> <<Key("category_name", "ASC"), Key("name", "ASC")>>
           [] t = "category_desc" -> <<Key("category_name", "DESC"), Key("name", "ASC")>>
           [] t = "available_first" -> <<Key("available", "DESC"), Key("name", "ASC")>>
           [] t = "available_last" -> <<Key("available", "ASC"), Key("name", "ASC")>>
           [] t = "newest" -> <<Key("id", "DESC")>>
           [] t = "oldest" -> <<Key("id", "ASC")>>
           [] OTHER -> <<Key("name", "ASC")>>

buildSectionOrderByClause(search, mode, sort) ==
    LET t == ToLower(sort) IN
    IF Ranked(search, mode)
    THEN CASE t \in {"relevance", ""} -> <<Rank, Key("name", "ASC")>>
           [] t \in {"name_asc", "name"} -> <<Key("name", "ASC")>>
           [] t = "name_desc" -> <<Key("name", "DESC")>>
           [] t = "title_asc" -> <<Key("title", "ASC"), Rank>>
           [] t = "title_desc" -> <<Key("title", "DESC"), Rank>>
           [] t = "created_asc" -> <<Key("created_at", "ASC"), Rank>>
           [] t \in {"created_desc", "newest"} -> <<Key("created_at", "DESC"), Rank>>
           [] t = "updated_asc" -> <<Key("updated_at", "ASC"), Rank>>
           [] t \in {"updated_desc", "recent"} -> <<Key("updated_at", "DESC"), Rank>>
           [] OTHER -> <<Rank, Key("name", "ASC")>>
    ELSE CASE t \in {"name_asc", "name", ""} -> <<Key("name", "ASC")>>
           [] t = "name_desc" -> <<Key("name", "DESC")>>
           [] t = "title_asc" -> <<Key("title", "ASC")>>
           [] t = "title_desc" -> <<Key("title", "DESC")>>
           [] t = "created_asc" -> <<Key("created_at", "ASC")>>
           [] t \in {"created_desc", "newest"} -> <<Key("created_at", "DESC")>>
           [] t = "updated_asc" -> <<Key("updated_at", "ASC")>>
           [] t \in {"updated_desc", "recent"} -> <<Key("updated_at", "DESC")>>
           [] t = "paragraphs_asc" ->
                <<Key("json_array_length(paragraphs)", "ASC"), Key("name", "ASC")>>
           [] t = "paragraphs_desc" ->
                <<Key("json_array_length(paragraphs)", "DESC"), Key("name", "ASC")>>
           [] t = "services_asc" ->
                <<Key("json_array_length(services)", "ASC"), Key("name", "ASC")>>
           [] t = "services_desc" ->
                <<Key("json_array_length(services)", "DESC"), Key("name", "ASC")>>
           [] OTHER -> <<Key("name", "ASC")>>

buildWizardOrderByClause(search, mode, sort) ==
    LET t == ToLower(sort) IN
    IF Ranked(search, mode)
    THEN CASE t \in {"relevance", ""} -> <<Rank, Key("w.name", "ASC")>>
           [] t \in {"name_asc", "name"} -> <<Key("w.name", "ASC")>>
           [] t = "name_desc" -> <<Key("w.name", "DESC")>>
           [] t = "eventkind_asc" -> <<Key("ek.name", "ASC"), Rank>>
           [] t = "eventkind_desc" -> <<Key("ek.name", "DESC"), Rank>>
           [] OTHER -> <<Rank, Key("w.name", "ASC")>>
    ELSE CASE t \in {"name_asc", "name", ""} -> <<Key("w.name", "ASC")>>
           [] t = "name_desc" -> <<Key("w.name", "DESC")>>
           [] t = "eventkind_asc" -> <<Key("ek.name", "ASC")>>
           [] t = "eventkind_desc" -> <<Key("ek.name", "DESC")>>
           [] t = "newest" -> <<Key("w.id", "DESC")>>
           [] t = "oldest" -> <<Key("w.id", "ASC")>>
           [] OTHER -> <<Key("w.name", "ASC")>>

buildCategoryOrderByClause(search, mode, sort) ==
    LET t == ToLower(sort) IN
    IF Ranked(search, mode)
    THEN CASE t \in {"relevance", ""} -> <<Rank, Key("ctg.name", "ASC")>>
           [] t \in {"name_asc", "name"} -> <<Key("ctg.name", "ASC")>>
           [] t = "name_desc" -> <<Key("ctg.name", "DESC")>>
           [] t = "product_count_asc" -> <<Key("product_count", "ASC"), Rank>>
           [] t = "product_count_desc" -> <<Key("product_count", "DESC"), Rank>>
           [] OTHER -> <<Rank, Key("ctg.name", "ASC")>>
    ELSE CASE t \in {"name_asc", "name", ""} -> <<Key("ctg.name", "ASC")>>
           [] t = "name_desc" -> <<Key("ctg.name", "DESC")>>
           [] t = "product_count_asc" -> <<Key("product_count", "ASC")>>
           [] t = "product_count_desc" -> <<Key("product_count", "DESC")>>
           [] OTHER -> <<Key("ctg.name", "ASC")>>

buildWizardStepOrderByClause(sort) ==
    LET t == ToLower(sort) IN
    CASE t \in {"name_asc", "name", ""} -> <<Key("ws.name", "ASC")>>
      [] t = "name_desc" -> <<Key("ws.name", "DESC")>>
      [] t = "newest" -> <<Key("ws.created_at", "DESC")>>
      [] t = "oldest" -> <<Key("ws.created_at", "ASC")>>
      [] t = "step_order" -> <<Key("ws.step_order", "ASC"), Key("ws.name", "ASC")>>
      [] OTHER -> <<Key("ws.name", "ASC")>>

buildQuoteOrderByClause(sort) ==
    LET t == ToLower(sort) IN
    CASE t = "created_asc" -> <<Key("q.created_at", "ASC")>>
      [] t \in {"created_desc", ""} -> <<Key("q.created_at", "DESC")>>
      [] t = "event_start_asc" -> <<Key("q.time_start", "ASC NULLS LAST")>>
      [] t = "event_start_desc" -> <<Key("q.time_start", "DESC NULLS LAST")>>
      [] t = "event_kind_asc" -> <<Key("ek.name", "ASC NULLS LAST")>>
      [] t = "event_kind_desc" -> <<Key("ek.name", "DESC NULLS LAST")>>
      [] t = "request_type_asc" -> <<Key("q.request_type", "ASC")>>
      [] t = "request_type_desc" -> <<Key("q.request_type", "DESC")>>
      [] t = "status_asc" -> <<Key("q.status", "ASC")>>
      [] t = "status_desc" -> <<Key("q.status", "DESC")>>
      [] OTHER -> <<Key("q.created_at", "DESC")>>

\* a sanitizer that returns what it was given
passThrough(t) == t

\* images.go: the column and the direction are chosen by a switch, the
\* clause is formatted from what the switches return
sanitizeSortBy(sortBy) ==
    LET t == ToLower(sortBy) IN
    CASE t = "name" -> "name"
      [] t = "filename" -> "filename"
      [] t = "size" -> "size"
      [] t \in {"created_at", "createdAt", "date"} -> "created_at"
      [] OTHER -> "created_at"

sanitizeSortOrder(sortOrder) ==
    LET t == ToUpper(sortOrder) IN
    CASE t \in {"ASC", "asc"} -> "ASC"
      [] t \in {"DESC", "desc"} -> "DESC"
      [] OTHER -> "DESC"

buildImageOrderByClause(pinned, name, sortBy, sortOrder) ==
    (IF pinned THEN <<Key("CASE WHEN id = ANY(@pinned::uuid[]) THEN array_position(@pinned::uuid[], id) ELSE @limit + 2 END", "")>>
     ELSE <<>>)
    \o (IF name # "" THEN <<Rank>> ELSE <<>>)
    \o <<Key(sanitizeSortBy(sortBy), sanitizeSortOrder(sortOrder))>>

\* the resources whose resolver takes (Search, SearchMode, Sort)
SearchResources == {"products", "catalog_products", "sections", "wizards", "categories"}
Resources == SearchResources \cup {"wizard_steps", "quotes"}

OrderByClause(r, search, mode, sort) ==
    CASE r = "products" -> buildProductsOrderByClause(search, mode, sort)
      [] r = "catalog_products" -> buildCatalogProductOrderByClause(search, mode, sort)
      [] r = "sections" -> buildSectionOrderByClause(search, mode, sort)
      [] r = "wizards" -> buildWizardOrderByClause(search, mode, sort)
      [] r = "categories" -> buildCategoryOrderByClause(search, mode, sort)
      [] r = "wizard_steps" -> buildWizardStepOrderByClause(sort)
      [] r = "quotes" -> buildQuoteOrderByClause(sort)

\* the filter operations: if filters.SearchMode == "" { ... = SearchModeFullText }
DefaultSearchMode(mode) == IF mode = "" THEN "fulltext" ELSE mode

QueryOnly ==
    UNCHANGED <<cartVars, secVars, poolVars, reqVars, available, gallery, filterResult,
                readResult, openTx, focus>>

\* a call a client is about to make, and the call a builder is asked
Asked(builder) == compiled.op = "input" /\ compiled.in.builder = builder

OrderInputs ==
    [builder : {"order"}, resource : Resources, Search : SearchTerms,
     SearchMode : SearchModes \cup {""}, Sort : SortTokens]

ImageOrderInputs ==
    [builder : {"image_order"}, Pinned : BOOLEAN, Name : SearchTerms,
     SortBy : SortTokens, SortOrder : SortOrders]

\* a filter operation resolves the ordering of its data query
ResolveOrder ==
    /\ Asked("order")
    /\ LET in == compiled.in
           mode == DefaultSearchMode(in.SearchMode) IN
       compiled' = [op |-> "order", resource |-> in.resource, Search |-> in.Search,
                    SearchMode |-> mode, Sort |-> in.Sort,
                    ranked |-> in.resource \in SearchResources /\ Ranked(in.Search, mode),
                    clause |-> OrderByClause(in.resource, in.Search, mode, in.Sort)]
    /\ QueryOnly

\* FilterImages resolves the ordering of its data query
ResolveImageOrder ==
    /\ Asked("image_order")
    /\ LET in == compiled.in IN
       compiled' = [op |-> "order", resource |-> "images", Search |-> in.Name,
                    SearchMode |-> "fulltext", Sort |-> in.SortBy,
                    ranked |-> in.Name # "",
                    clause |-> buildImageOrderByClause(in.Pinned, in.Name, in.SortBy,
                                                       in.SortOrder)]
    /\ QueryOnly

(***************************************************************************)
(* The condition builders.  A builder returns [conditions, namedArgs]:     *)
(* the conditions in the order they were appended, each with the filter    *)
(* fields that made the builder append it, and the names namedArgs binds.  *)
(***************************************************************************)
Cond(fields, text, names) == [fields |-> fields, text |-> text, names |-> names]

\* if <populated> { conditions = append(conditions, text); namedArgs[n] = ... }
Piece(populated, fields, text, names) ==
    IF populated
    THEN [conditions |-> <<Cond(fields, text, names)>>, namedArgs |-> names]
    ELSE [conditions |-> <<>>, namedArgs |-> {}]

RECURSIVE JoinFrom(_, _)
JoinFrom(pieces, i) ==
    IF i > Len(pieces) THEN [conditions |-> <<>>, namedArgs |-> {}]
    ELSE LET rest == JoinFrom(pieces, i + 1) IN
         [conditions |-> pieces[i].conditions \o rest.conditions,
          namedArgs |-> pieces[i].namedArgs \cup rest.namedArgs]

\* the search condition of a builder: one text per search mode, none for a
\* mode the switch does not name
SearchPiece(f, fulltext, exact, fuzzy) ==
    CASE f.Search # "" /\ f.SearchMode = "fulltext" ->
            Piece(TRUE, {"Search"}, fulltext, {"search_query"})
      [] f.Search # "" /\ f.SearchMode = "exact" ->
            Piece(TRUE, {"Search"}, exact, {"exact_search"})
      [] f.Search # "" /\ f.SearchMode = "fuzzy" ->
            Piece(TRUE, {"Search"}, fuzzy, {"fuzzy_search"})
      [] OTHER -> Piece(FALSE, {}, "", {})

\* HasImage, HasBGImage, Available: > 0, < 0 or neither
SignPiece(value, field, positive, negative) ==
    CASE value > 0 -> Piece(TRUE, {field}, positive, {})
      [] value < 0 -> Piece(TRUE, {field}, negative, {})
      [] OTHER -> Piece(FALSE, {}, "", {})

buildSectionQueryConditions(f) ==
    JoinFrom(<<
        Piece(f.IDs # {}, {"IDs"}, "id = ANY(@ids)", {"ids"}),
        SearchPiece(f, "search_vector @@ plainto_tsquery('spanish', @search_query)",
                    "(name ILIKE @exact_search OR title ILIKE @exact_search OR paragraphs::text ILIKE @exact_search OR services::text ILIKE @exact_search)",
                    "(name ILIKE @fuzzy_search OR title ILIKE @fuzzy_search OR paragraphs::text ILIKE @fuzzy_search OR services::text ILIKE @fuzzy_search)"),
        SignPiece(f.HasImage, "HasImage", "image IS NOT NULL AND image != ''",
                  "image IS NULL OR image = ''"),
        SignPiece(f.HasBGImage, "HasBGImage", "bg_image IS NOT NULL AND bg_image != ''",
                  "bg_image IS NULL OR bg_image = ''"),
        Piece(f.ParagraphCount > 0, {"ParagraphCount"},
              "json_array_length(paragraphs) >= @paragraph_count", {"paragraph_count"}),
        Piece(f.ServiceCount > 0, {"ServiceCount"},
              "json_array_length(services) >= @service_count", {"service_count"}),
        Piece(f.ItemCount > 0, {"ItemCount"},
              "(SELECT COALESCE(SUM(json_array_length(svc->'items')), 0) FROM json_array_elements(services) AS svc) >= @item_count",
              {"item_count"}),
        CASE f.MinPrice > 0 /\ f.MaxPrice > 0 ->
                Piece(TRUE, {"MinPrice", "MaxPrice"},
                      "EXISTS (... (svc->>'price')::int BETWEEN @min_price AND @max_price)",
                      {"min_price", "max_price"})
          [] f.MinPrice > 0 ->
                Piece(TRUE, {"MinPrice"}, "EXISTS (... (svc->>'price')::int >= @min_price)",
                      {"min_price"})
          [] f.MaxPrice > 0 ->
                Piece(TRUE, {"MaxPrice"}, "EXISTS (... (svc->>'price')::int <= @max_price)",
                      {"max_price"})
          [] OTHER -> Piece(FALSE, {}, "", {}),
        Piece(f.CreatedAfter # "", {"CreatedAfter"}, "created_at >= @created_after",
              {"created_after"}),
        Piece(f.CreatedBefore # "", {"CreatedBefore"}, "created_at <= @created_before",
              {"created_before"}),
        Piece(f.UpdatedAfter # "", {"UpdatedAfter"}, "updated_at >= @updated_after",
              {"updated_after"}),
        Piece(f.UpdatedBefore # "", {"UpdatedBefore"}, "updated_at <= @updated_before",
              {"updated_before"}) >>, 1)

buildCatalogProductQueryConditions(f) ==
    JoinFrom(
        (IF f.OnlyIDs # {}
         THEN <<Piece(TRUE, {"OnlyIDs"}, "id = ANY(@only_ids)", {"only_ids"})>>
         ELSE <<
            SearchPiece(f, "search_vector @@ plainto_tsquery(\"spanish\", @search_query)",
                        "(name ILIKE @exact_search OR description ILIKE @exact_search)",
                        "(name ILIKE @fuzzy_search OR description ILIKE @fuzzy_search OR category_name ILIKE @fuzzy_search)"),
            Piece(f.Categories # {}, {"Categories"}, "category_id = ANY(@categories)",
                  {"categories"}),
            SignPiece(f.Available, "Available", "available = true", "available = false"),
            Piece(f.MinQuantity > 0, {"MinQuantity"}, "quantity >= @min_quantity",
                  {"min_quantity"}),
            Piece(f.MaxQuantity > 0, {"MaxQuantity"}, "quantity <= @max_quantity",
                  {"max_quantity"}) >>)
        \o <<Piece(f.ExcludeIDs # {}, {"ExcludeIDs"}, "id != ALL(@exclude_ids)",
                   {"exclude_ids"})>>, 1)

buildWizardQueryConditions(f) ==
    JoinFrom(<<
        SearchPiece(f, "w.search_vector @@ plainto_tsquery('spanish', @search_query)",
                    "(w.name ILIKE @exact_search)",
                    "(w.name ILIKE @fuzzy_search OR ek.name ILIKE @fuzzy_search)"),
        Piece(f.EventKind # "", {"EventKind"}, "w.event_kind_id = @event_kind_id",
              {"event_kind_id"}) >>, 1)

\* FilterWizards: the condition on w.enabled is appended for every
\* Enabled != 0, @enabled is bound for 1 and -1 only
FilterWizardsConditions(f) ==
    LET built == buildWizardQueryConditions(f) IN
    IF f.Enabled # 0
    THEN [conditions |-> Append(built.conditions,
                                Cond({"Enabled"}, "w.enabled = @enabled", {"enabled"})),
          namedArgs |-> built.namedArgs
                        \cup (IF f.Enabled \in {1, -1} THEN {"enabled"} ELSE {})]
    ELSE built

\* the filter parameter objects a client sends: every field absent (its
\* zero value) or populated; Enabled also with a value other than -1, 0, 1
SectionFilterParams ==
    [IDs : {{}, {"id1"}}, Search : SearchTerms, SearchMode : SearchModes \cup {"other"},
     HasImage : {-1, 0, 1}, HasBGImage : {-1, 0, 1},
     ParagraphCount : {0, 2}, ServiceCount : {0, 2}, ItemCount : {0, 2},
     MinPrice : {0, 2}, MaxPrice : {0, 2},
     CreatedAfter : {"", "2025-01-01"}, CreatedBefore : {"", "2025-01-01"},
     UpdatedAfter : {"", "2025-01-01"}, UpdatedBefore : {""}]

CatalogProductFilterParams ==
    [OnlyIDs : {{}, {"id1"}}, ExcludeIDs : {{}, {"id1"}}, Search : SearchTerms,
     SearchMode : SearchModes \cup {"other"}, Categories : {{}, {"c1"}},
     Available : {-1, 0, 1}, MinQuantity : {0, 2}, MaxQuantity : {0, 2}]

WizardFilterParams ==
    [Search : SearchTerms, SearchMode : SearchModes \cup {"", "other"},
     EventKind : {"", "ek1"}, Enabled : {-1, 0, 1, 2}]

ConditionInputs ==
    [builder : {"sections"}, params : SectionFilterParams]
    \cup [builder : {"catalog_products"}, params : CatalogProductFilterParams]
    \cup [builder : {"wizards"}, params : WizardFilterParams]

Compiled(r, f, built) ==
    /\ compiled' = [op |-> "conditions", resource |-> r, params |-> f,
                    conditions |-> built.conditions, namedArgs |-> built.namedArgs]
    /\ QueryOnly

\* FilterSections, FilterCatalogProducts and FilterWizards compile the
\* conditions of their count and data queries
SectionConditions ==
    /\ Asked("sections")
    /\ Compiled("sections", compiled.in.params,
                buildSectionQueryConditions(compiled.in.params))

CatalogProductConditions ==
    /\ Asked("catalog_products")
    /\ Compiled("catalog_products", compiled.in.params,
                buildCatalogProductQueryConditions(compiled.in.params))

WizardConditions ==
    /\ Asked("wizards")
    /\ LET f == compiled.in.params
           g == [f EXCEPT !.SearchMode = DefaultSearchMode(f.SearchMode)] IN
       Compiled("wizards", g, FilterWizardsConditions(g))

(***************************************************************************)
(* The data query's select list and the destinations its rows are scanned  *)
(* into.  rows.Scan returns an error when the two differ in number.        *)
(***************************************************************************)
ScannedOps == {"FilterSections", "FilterProducts", "FilterCatalogProducts", "FilterWizards"}

\* buildSectionSearchRankSelect: the rank column, or the empty string
buildSectionSearchRankSelect(search, mode) ==
    IF search # "" /\ mode = "fulltext" THEN <<"search_rank">> ELSE <<>>

\* buildSearchRankSelect, buildCatalogProductSearchRankSelect,
\* buildWizardSearchRankSelect: ts_rank(...) as search_rank, or 0 as search_rank
buildSearchRankSelect(search, mode) == <<"search_rank">>

\* the select list of the operation's data query
SelectList(op, search, mode) ==
    CASE op = "FilterSections" ->
            <<"id", "name", "title", "image", "bg_image", "created_at", "updated_at",
              "paragraphs", "services", "search_vector">>
            \o buildSectionSearchRankSelect(search, mode)
      [] op = "FilterProducts" ->
            <<"id", "name", "description", "long_description", "category_id", "category",
              "main_img", "available", "quantity", "qrcode_filename", "slug", "images">>
            \o buildSearchRankSelect(search, mode)
      [] op = "FilterCatalogProducts" ->
            <<"id", "name", "description", "long_description", "category_id",
              "category_name", "image_url", "available", "images", "slug", "quantity">>
            \o buildSearchRankSelect(search, mode)
      [] op = "FilterWizards" ->
            <<"id", "name", "description", "event_kind_id", "is_general", "enabled",
              "event_kind">>
            \o buildSearchRankSelect(search, mode)

\* scanProducts: the destinations of rows.Scan in its two branches
scanProducts(includeRank) ==
    IF includeRank
    THEN <<"ID", "Name", "Description", "longDescription", "CategoryID", "Category",
           "mainImg", "Available", "Quantity", "QRCodeFilename", "Slug", "images",
           "searchRank">>
    ELSE <<"ID", "Name", "Description", "CategoryID", "Category",
           "mainImg", "Available", "Quantity", "QRCodeFilename", "Slug", "images",
           "searchRank">>

\* the destinations each row of the operation's data query is scanned into;
\* scanCatalogProducts and scanWizards scan searchRank in both branches
ScanDestinations(op, mode) ==
    CASE op = "FilterSections" ->
            <<"ID", "sectionName", "sectionTitle", "sectionImage", "sectionBGImage",
              "sectionCreated", "sectionUpdated", "paragraphsJSON", "servicesJSON",
              "searchVector">>
      [] op = "FilterProducts" -> scanProducts(mode = "fulltext")
      [] op = "FilterCatalogProducts" ->
            <<"ID", "Name", "Description", "LongDescription", "CategoryID", "CategoryName",
              "ImageURL", "Available", "imagesJSON", "Slug", "Quantity", "searchRank">>
      [] op = "FilterWizards" ->
            <<"ID", "Name", "Description", "eventKindID", "IsGeneral", "Enabled",
              "eventKind", "searchRank">>

ScanInputs ==
    [builder : {"scan"}, operation : ScannedOps, Search : SearchTerms,
     SearchMode : SearchModes \cup {""}]

\* the operation materializes a result of at least one row
ScanRows ==
    /\ Asked("scan")
    /\ LET in == compiled.in
           mode == DefaultSearchMode(in.SearchMode)
           columns == SelectList(in.operation, in.Search, mode)
           destinations == ScanDestinations(in.operation, mode) IN
       compiled' = [op |-> "scan", operation |-> in.operation, Search |-> in.Search,
                    SearchMode |-> mode, columns |-> columns,
                    destinations |-> destinations,
                    err |-> Len(columns) # Len(destinations)]
    /\ QueryOnly

(***************************************************************************)
(* The WHERE clause: strings.Join(conditions, " AND "), read by the store  *)
(* with AND binding tighter than OR.  A row of detailed_sections is [id,   *)
(* image, bg_image, paragraphs]; image and bg_image are "NULL", "" or a    *)
(* file name.  A comparison with NULL is not true, and no condition        *)
(* negates one, so it counts as false.                                     *)
(***************************************************************************)
\* the words of a condition's text: its comparisons and the AND / OR
\* between them that no parenthesis encloses
CondTokens(text) ==
    CASE text = "image IS NOT NULL AND image != ''" ->
            <<"image IS NOT NULL", "AND", "image != ''">>
      [] text = "image IS NULL OR image = ''" ->
            <<"image IS NULL", "OR", "image = ''">>
      [] text = "bg_image IS NOT NULL AND bg_image != ''" ->
            <<"bg_image IS NOT NULL", "AND", "bg_image != ''">>
      [] text = "bg_image IS NULL OR bg_image = ''" ->
            <<"bg_image IS NULL", "OR", "bg_image = ''">>
      [] OTHER -> <<text>>

\* conditions[i] AND conditions[i+1] AND ...
RECURSIVE WhereTokens(_, _)
WhereTokens(conditions, i) ==
    IF i > Len(conditions) THEN <<>>
    ELSE (IF i > 1 THEN <<"AND">> ELSE <<>>)
         \o CondTokens(conditions[i].text) \o WhereTokens(conditions, i + 1)

\* one comparison on one row, with the bound arguments of f
ComparisonHolds(c, row, f) ==
    CASE c = "id = ANY(@ids)" -> row.id \in f.IDs
      [] c = "image IS NOT NULL" -> row.image # "NULL"
      [] c = "image != ''" -> row.image \notin {"NULL", ""}
      [] c = "image IS NULL" -> row.image = "NULL"
      [] c = "image = ''" -> row.image = ""
      [] c = "bg_image IS NOT NULL" -> row.bg_image # "NULL"
      [] c = "bg_image != ''" -> row.bg_image \notin {"NULL", ""}
      [] c = "bg_image IS NULL" -> row.bg_image = "NULL"
      [] c = "bg_image = ''" -> row.bg_image = ""
      [] c = "json_array_length(paragraphs) >= @paragraph_count" ->
            row.paragraphs >= f.ParagraphCount

\* the value of tokens[i..] on the row: a disjunction of conjunctions; acc
\* is the value of the conjunction that is being read
RECURSIVE HoldsFrom(_, _, _, _, _)
HoldsFrom(tokens, i, acc, row, f) ==
    IF i > Len(tokens) THEN acc
    ELSE IF tokens[i] = "OR" THEN acc \/ HoldsFrom(tokens, i + 1, TRUE, row, f)
    ELSE IF tokens[i] = "AND" THEN HoldsFrom(tokens, i + 1, acc, row, f)
    ELSE HoldsFrom(tokens, i + 1, acc /\ ComparisonHolds(tokens[i], row, f), row, f)

\* the filters of FilterSections that compare id, image, bg_image and
\* paragraphs, every other field absent
WhereFilterParams ==
    {[IDs |-> ids, Search |-> "", SearchMode |-> "fulltext", HasImage |-> hi,
      HasBGImage |-> hb, ParagraphCount |-> pc0, ServiceCount |-> 0, ItemCount |-> 0,
      MinPrice |-> 0, MaxPrice |-> 0, CreatedAfter |-> "", CreatedBefore |-> "",
      UpdatedAfter |-> "", UpdatedBefore |-> ""] :
        ids \in {{}, {"id1"}}, hi \in {-1, 0, 1}, hb \in {-1, 0, 1}, pc0 \in {0, 2}}

SectionRows ==
    [id : {"id1", "id2"}, image : {"NULL", "", "a.png"}, bg_image : {"NULL", "", "b.png"},
     paragraphs : {0, 2}]

WhereInputs == [builder : {"where"}, params : WhereFilterParams, row : SectionRows]

\* FilterSections' count and data query on a view that holds the one row
SectionWhere ==
    /\ Asked("where")
    /\ LET f == compiled.in.params
           row == compiled.in.row
           conditions == buildSectionQueryConditions(f).conditions IN
       compiled' = [op |-> "where", params |-> f, row |-> row,
                    conditions |-> conditions,
                    selected |-> HoldsFrom(WhereTokens(conditions, 1), 1, TRUE, row, f)]
    /\ QueryOnly

InitQuery ==
    compiled \in {[op |-> "input", in |-> x] :
                    x \in OrderInputs \cup ImageOrderInputs \cup ConditionInputs
                          \cup ScanInputs \cup WhereInputs}

NextQuery ==
    \/ ResolveOrder
    \/ ResolveImageOrder
    \/ SectionConditions
    \/ CatalogProductConditions
    \/ WizardConditions
    \/ ScanRows
    \/ SectionWhere

(***************************************************************************)
(* The single-entity lookups: FindSectionByID, FindCartByID,                *)
(* FindProductByID, FindCategoryByID, FindImageByID, FindQuoteByID.  Each   *)
(* acquires a connection, runs one QueryRow(...).Scan(...) with the         *)
(* caller's id and returns the entity or an error.                          *)
(***************************************************************************)
Lookups == {"FindSectionByID", "FindCartByID", "FindProductByID",
            "FindCategoryByID", "FindImageByID", "FindQuoteByID"}

\* the identities a caller passes: the empty string, a string that is no
\* uuid, and two uuids
LookupIDs == {"", "not-a-uuid", "u1", "u2"}
UUIDs == {"u1", "u2"}

\* what goes wrong outside the lookup: nothing, GetConn returns an error,
\* the query fails (deadline, network)
LookupFaults == {"none", "conn", "query"}

\* QueryRow(ctx, `... WHERE id = $1`, id).Scan(...) on a uuid column: the
\* error Scan returns, "nil" when a row was scanned
ScanRow(stored, id, f) ==
    IF f = "query" THEN "query failed"
    ELSE IF id \notin UUIDs THEN "invalid input syntax for type uuid"
    ELSE IF id \in stored THEN "nil"
    ELSE "pgx.ErrNoRows"

\* the lookups that return Scan's error as it is
ReturnsScanError(stored, id, f) ==
    IF f = "conn" THEN "pool error" ELSE ScanRow(stored, id, f)

FindSectionByIDError(stored, id, f) ==
    IF f = "conn" THEN "pool error"
    ELSE IF ScanRow(stored, id, f) = "pgx.ErrNoRows" THEN "ErrSectionNotFound"
    ELSE ScanRow(stored, id, f)

FindCartByIDError(stored, id, f) ==
    IF id = "" THEN "ErrCartIDInvalidMissing"
    ELSE IF f = "conn" THEN "pool error"
    ELSE IF ScanRow(stored, id, f) = "pgx.ErrNoRows" THEN "ErrCartNotFound"
    ELSE ScanRow(stored, id, f)

\* FindProductByID, FindCategoryByID, FindImageByID and FindQuoteByID have
\* the one error path `if err != nil { return nil, err }`
LookupError(op, stored, id, f) ==
    CASE op = "FindSectionByID" -> FindSectionByIDError(stored, id, f)
      [] op = "FindCartByID" -> FindCartByIDError(stored, id, f)
      [] OTHER -> ReturnsScanError(stored, id, f)

(***************************************************************************)
(* The PopulateAuth middleware around a handler of the router.             *)
(***************************************************************************)
\* requests in flight at once
MaxHTTPRequests == 3
HTTPRequests == 1..MaxHTTPRequests

\* what a request carries: no cookie; a cookie whose String() has no "=";
\* a token ParseToken rejects; an expired token; a token with a valid
\* signature that lacks one of the claims; a token with every claim
Tokens == {"none", "blank", "invalid", "expired", "partial", "valid"}

InvalidTokenID == "invalid"

NotArrived == [token |-> "none", pos |-> "idle", authID |-> "", invoked |-> <<>>]

InitHandled == handled = [r \in HTTPRequests |-> NotArrived]

\* the body of the middleware falls through to next(w, authedReq) when no
\* branch returned: the cookie is there, splits in two, parses, and every
\* claim is a string
ReachesNext(token) == token = "valid"

\* auth.ID when the body ends
AuthID(token) ==
    CASE token = "partial" -> InvalidTokenID
      [] token = "valid" -> "u1"
      [] OTHER -> ""

HTTPOnly ==
    UNCHANGED <<cartVars, secVars, filterVars, poolVars, entities, lookup, at, got,
                openTx, focus>>

\* the router passes a request to the handler PopulateAuth returned
Arrive(r, token) ==
    /\ handled[r].pos = "idle"
    /\ handled' = [handled EXCEPT ![r] = [NotArrived EXCEPT !.token = token, !.pos = "body"]]
    /\ HTTPOnly

\* the body up to its return or to the call of next at its end
PopulateAuth(r) ==
    /\ handled[r].pos = "body"
    /\ handled' = [handled EXCEPT ![r].authID = AuthID(handled[r].token),
                                  ![r].pos = IF ReachesNext(handled[r].token)
                                             THEN "next" ELSE "return"]
    /\ HTTPOnly

\* next(w, authedReq), the last statement of the body
CallNext(r) ==
    /\ handled[r].pos = "next"
    /\ handled' = [handled EXCEPT ![r].invoked = Append(@, "authedReq"),
                                  ![r].pos = "return"]
    /\ HTTPOnly

\* defer next(w, r) runs when the body returns, on every path
DeferredNext(r) ==
    /\ handled[r].pos = "return"
    /\ handled' = [handled EXCEPT ![r].invoked = Append(@, "r"),
                                  ![r].pos = "done"]
    /\ HTTPOnly

NextAuth ==
    \E r \in HTTPRequests :
        \/ \E token \in Tokens : Arrive(r, token)
        \/ PopulateAuth(r)
        \/ CallNext(r)
        \/ DeferredNext(r)

NoLookup == [op |-> "none"]

\* the requests that call GetOrCreateCart with the one cart id
MaxRequests == 4
Requests == 1..MaxRequests

InitRequests ==
    /\ InitHandled
    /\ at = [r \in Requests |-> "find"]
    /\ got = [r \in Requests |-> "none"]

\* no lookup runs
InitRequestsIdle ==
    /\ entities = [l \in Lookups |-> {}]
    /\ lookup = NoLookup
    /\ InitRequests

\* every store: per lookup, u1 has a row or not; u2 never has one
InitLookup ==
    /\ entities \in [Lookups -> SUBSET {"u1"}]
    /\ lookup = NoLookup
    /\ InitRequests

LookupOnly ==
    UNCHANGED <<cartVars, secVars, filterVars, poolVars, entities, at, got, handled,
                openTx, focus>>

\* one call of a lookup, from the call to its return
Lookup(op, id, f) ==
    /\ lookup = NoLookup
    /\ lookup' = [op |-> op, id |-> id, fault |-> f,
                  err |-> LookupError(op, entities[op], id, f)]
    /\ LookupOnly

\* the caller drops the result
Forget ==
    /\ lookup # NoLookup
    /\ lookup' = NoLookup
    /\ LookupOnly

\* GetCatalogProductsByIDs.  The view catalog_products holds CatalogSize
\* products, numbered in the order of their names.  The caller's productIDs
\* is a list: ids are the products it names, len its length (a list may
\* repeat an id or name a product the view does not hold).
CatalogSize == 17
CatalogIDs == 1..CatalogSize

ProductIDLists ==
    {[ids |-> 1..k, len |-> n] : k \in 0..CatalogSize, n \in {0, 1, 2, MaxLimit, MaxLimit + 1}}
    \cup {[ids |-> {k}, len |-> n] : k \in CatalogIDs, n \in 1..2}

\* ORDER BY name ASC LIMIT @limit OFFSET @offset over the matching rows
RowsOnPage(matching, limit, offset) ==
    {r \in matching :
        LET before == Cardinality({x \in matching : x < r}) IN
        before >= offset /\ before < offset + limit}

\* FilterCatalogProducts with OnlyIDs, Page and Limit set and no other
\* filter: the products of the result
FilterCatalogProductsRows(filters) ==
    LET page == NormalizePage(filters.Page)
        limit == NormalizeLimit(filters.Limit, DefaultCatalogPageSize)
        \* buildCatalogProductQueryConditions: id = ANY(@only_ids) when
        \* len(filters.OnlyIDs) > 0, no condition otherwise
        matching == IF filters.OnlyIDs.len > 0
                    THEN CatalogIDs \cap filters.OnlyIDs.ids
                    ELSE CatalogIDs
    IN RowsOnPage(matching, limit, (page - 1) * limit)

GetCatalogProductsByIDsRows(productIDs) ==
    FilterCatalogProductsRows([OnlyIDs |-> productIDs, Page |-> 1, Limit |-> productIDs.len])

GetCatalogProductsByIDs(productIDs) ==
    /\ lookup = NoLookup
    /\ productIDs.len >= Cardinality(productIDs.ids)
    /\ lookup' = [op |-> "GetCatalogProductsByIDs", productIDs |-> productIDs,
                  rows |-> GetCatalogProductsByIDsRows(productIDs)]
    /\ LookupOnly

NextLookup ==
    \/ \E op \in Lookups, id \in LookupIDs, f \in LookupFaults : Lookup(op, id, f)
    \/ \E productIDs \in ProductIDLists : GetCatalogProductsByIDs(productIDs)
    \/ Forget

(***************************************************************************)
(* GetOrCreateCart, called by concurrent requests that carry the same cart *)
(* id.  The Cart value of a request that finds no row is NewCart(id):      *)
(* isNew, no updated field, no line.                                       *)
(***************************************************************************)
RequestOnly ==
    UNCHANGED <<Items, CustomerName, updatedFields, removedItems, isNew, stock,
                saveResult, saveFault, saveLog,
                secVars, filterVars, poolVars, entities, lookup, handled, openTx, focus>>

\* cart, err := FindCartByID(ctx, cartID): the row is there, there is no
\* row (ErrCartNotFound), or the lookup fails
GetOrCreateCartFind(r, failed) ==
    /\ at[r] = "find"
    /\ IF failed
       THEN at' = [at EXCEPT ![r] = "done"] /\ got' = [got EXCEPT ![r] = "fault"]
       ELSE IF carts # {}
       THEN at' = [at EXCEPT ![r] = "done"] /\ got' = [got EXCEPT ![r] = "cart"]
       ELSE at' = [at EXCEPT ![r] = "create"] /\ UNCHANGED got
    /\ UNCHANGED <<carts, cart_items>>
    /\ RequestOnly

\* cart = NewCart(cartID); err = cart.Save(ctx): Save's transaction on the
\* store as it is when the statements run.  The call returns the cart, the
\* error of a statement the store or the network failed ("fault"), or the
\* error of a statement a constraint of the tables refused ("refused").
GetOrCreateCartSave(r) ==
    /\ at[r] = "create"
    /\ \E f \in 0..Len(SaveStmts) :
       LET pre == [carts |-> carts, cart_items |-> cart_items]
           run == RunFrom(pre, SaveStmts, 1, f)
           post == SaveOutcome(pre, run) IN
       /\ carts' = post.carts
       /\ cart_items' = post.cart_items
       /\ got' = [got EXCEPT ![r] = IF run.fail = 0 THEN "cart"
                                    ELSE IF run.fail = f THEN "fault"
                                    ELSE "refused"]
    /\ at' = [at EXCEPT ![r] = "done"]
    /\ RequestOnly

NextRequests ==
    \E r \in Requests :
        \/ \E failed \in BOOLEAN : GetOrCreateCartFind(r, failed)
        \/ GetOrCreateCartSave(r)

(***************************************************************************)
(* The specifications.                                                     *)
(***************************************************************************)
InitSpecCart ==
    /\ InitCart /\ InitSection /\ InitCatalogIdle /\ InitPool /\ InitRequestsIdle
    /\ openTx = 0
    /\ focus = "cart"

SpecCart == InitSpecCart /\ [][NextCart]_vars

\* the cart stays as constructed while the editors run
InitIdleCart == NewCart /\ InitCartStore /\ stock = [p \in Products |-> 1]

InitSpecSection ==
    /\ InitIdleCart /\ InitSection /\ InitCatalogIdle /\ InitPool /\ InitRequestsIdle
    /\ openTx = 0
    /\ focus = "section"

SpecSection == InitSpecSection /\ [][NextSection]_vars

InitSpecRace ==
    /\ InitIdleCart /\ InitRace /\ InitCatalogIdle /\ InitPool /\ InitRequestsIdle
    /\ openTx = 0
    /\ focus = "race"

\* two clients edit their copies and call UpdateSectionWithAdditions
NextRace ==
    \E e \in Editors :
        \/ EditRoot(e)
        \/ EditParagraph(e)
        \/ EditService(e)
        \/ EditItem(e)
        \/ AddRecord(e)
        \/ Call(e, "UpdateSectionWithAdditions")
        \/ Finish(e)

SpecRace == InitSpecRace /\ [][NextRace]_vars

InitSpecFilter ==
    /\ InitCart /\ InitSection /\ InitCatalog /\ InitPool /\ InitRequestsIdle
    /\ openTx = 0
    /\ focus = "filter"

SpecFilter == InitSpecFilter /\ [][NextFilter]_vars

InitSpecPool ==
    /\ InitIdleCart /\ InitSection /\ InitCatalogIdle /\ InitPool /\ InitRequestsIdle
    /\ openTx = 0
    /\ focus = "pool"

SpecPool == InitSpecPool /\ [][NextPool]_vars

\* the pool hands a free connection to a waiting Acquire, and a function
\* that can run reaches its Release and its return; nothing makes an
\* Acquire fail: GetConn waits on context.Background()
SpecPoolLive ==
    /\ InitSpecPool
    /\ [][NextPool]_vars
    /\ \A p \in Procs : SF_vars(Acquire(p)) /\ WF_vars(Release(p)) /\ WF_vars(Return(p))

InitSpecQuery ==
    /\ InitIdleCart /\ InitSection /\ InitPool /\ InitRequestsIdle
    /\ available = [p \in Products |-> TRUE]
    /\ gallery = [p \in Products |-> 0]
    /\ filterResult = NoPage
    /\ readResult = NoRead
    /\ InitQuery
    /\ openTx = 0
    /\ focus = "query"

SpecQuery == InitSpecQuery /\ [][NextQuery]_vars

\* Cart.Save and the section updater in one specification
InitAtomic ==
    \/ InitSpecCart
    \/ /\ InitIdleCart /\ InitAtomicEditor /\ InitCatalogIdle /\ InitPool /\ InitRequestsIdle
       /\ openTx = 0
       /\ focus = "section"

NextAtomic == NextCart \/ NextSection

SpecAtomic == InitAtomic /\ [][NextAtomic]_vars

InitSpecLookup ==
    /\ InitIdleCart /\ InitSection /\ InitCatalogIdle /\ InitPool /\ InitLookup
    /\ openTx = 0
    /\ focus = "lookup"

SpecLookup == InitSpecLookup /\ [][NextLookup]_vars

InitSpecRequests ==
    /\ InitIdleCart /\ InitSection /\ InitCatalogIdle /\ InitPool /\ InitRequestsIdle
    /\ openTx = 0
    /\ focus = "requests"

SpecRequests == InitSpecRequests /\ [][NextRequests]_vars

InitSpecInsert ==
    /\ InitIdleCart /\ InitSection /\ InitCatalogIdle /\ InitPool /\ InitRequestsIdle
    /\ openTx = 0
    /\ focus = "insert"

SpecInsert == InitSpecInsert /\ [][NextInsert]_vars

InitSpecAuth ==
    /\ InitIdleCart /\ InitSection /\ InitCatalogIdle /\ InitPool /\ InitRequestsIdle
    /\ openTx = 0
    /\ focus = "auth"

SpecAuth == InitSpecAuth /\ [][NextAuth]_vars

(***************************************************************************)
(* Claims about the cart.                                                  *)
(***************************************************************************)
\* the item statements Save sent to the store in its last call
WrittenLines == {saveLog[i] : i \in {j \in 1..Len(saveLog) : saveLog[j].kind = "item"}}

\* C1: after any sequence of AddItem, UpdateItemQty, RemoveItem and
\* ClearCart, every line the cart holds and every line Save writes to the
\* store has quantity > 0, and no stored line has quantity <= 0.
C1_LinesPositive ==
    /\ \A i \in 1..Len(Items) : Items[i].Quantity > 0
    /\ \A s \in WrittenLines : s.quantity > 0
    /\ \A r \in cart_items : r.quantity > 0

\* a Save that sent a line of quantity <= 0 to the store
C1_SaveSentNonPositive == \E s \in WrittenLines : s.quantity <= 0

\* C2: every line a successful Save wrote to the store has a quantity <= the
\* MaxQty of that line, also when the quantity was reached by AddItem merging.
C2_WrittenWithinMaxQty ==
    saveResult = "ok" =>
        \A s \in WrittenLines :
            s.quantity <= Items[LineIndex(Items, s.product_id)].MaxQty

\* a successful Save that stored a line above its MaxQty
C2_StoredAboveMaxQty ==
    /\ saveResult = "ok"
    /\ \E i \in 1..Len(Items) :
          /\ Items[i].Quantity > Items[i].MaxQty
          /\ [product_id |-> Items[i].ProductID, quantity |-> Items[i].Quantity] \in cart_items

\* C14: AddItem(item) on a cart that has a line of item.ProductID adds
\* item.Quantity to that line and leaves the number of lines unchanged,
\* otherwise it appends exactly one line; the cart never has two lines of
\* one ProductID.
C14_AddItemMerges ==
    [][/\ \A p \in Products, q \in 1..MaxAddQty :
            AddItem(p, q) =>
                LET where == {i \in 1..Len(Items) : Items[i].ProductID = p} IN
                IF where # {}
                THEN /\ Len(Items') = Len(Items)
                     /\ \A i \in 1..Len(Items) :
                            IF i \in where
                            THEN /\ Items'[i].ProductID = p
                                 /\ Items'[i].Quantity = Items[i].Quantity + q
                            ELSE Items'[i] = Items[i]
                ELSE /\ Len(Items') = Len(Items) + 1
                     /\ SubSeq(Items', 1, Len(Items)) = Items
                     /\ Items'[Len(Items')].ProductID = p
                     /\ Items'[Len(Items')].Quantity = q
       /\ \A i, j \in 1..Len(Items') :
            Items'[i].ProductID = Items'[j].ProductID => i = j]_vars

\* a cart never saved whose one line holds the sum of two AddItem calls of
\* quantity 1
C14_TwoAddsOneLine ==
    /\ cart_items = {} /\ carts = {} /\ isNew
    /\ Len(Items) = 1
    /\ Items[1].MaxQty = 1
    /\ Items[1].Quantity = 2

\* C15: UpdateItemQty(p, qty) with qty > 0 sets the quantity of p's line to
\* min(qty, MaxQty of that line) and changes no other line; without a line
\* of p it changes no line.
C15_UpdateQtyClamps ==
    [][\A p \in Products, q \in 1..MaxAddQty :
            UpdateItemQty(p, q) =>
                /\ Len(Items') = Len(Items)
                /\ \A i \in 1..Len(Items) :
                      IF Items[i].ProductID = p
                      THEN Items'[i] = [Items[i] EXCEPT !.Quantity =
                                IF q <= Items[i].MaxQty THEN q ELSE Items[i].MaxQty]
                      ELSE Items'[i] = Items[i]]_vars

\* the line was stored with quantity 2, loaded with MaxQty 1, and
\* UpdateItemQty brought it to the bound
C15_LoadedLineClamped ==
    /\ \E r \in cart_items : r.quantity = 2 /\ Len(Items) = 1
          /\ Items[1].ProductID = r.product_id
    /\ Len(Items) = 1
    /\ Items[1].Quantity = 1 /\ Items[1].MaxQty = 1
    /\ removedItems = {}
    /\ "items" \in updatedFields
    /\ ~isNew

\* C16: UpdateItemQty(p, q) with q <= 0, RemoveItem(p) and ClearCart remove
\* the lines concerned from Items and record every removed ProductID in
\* removedItems without a statement to the store, and a successful Save
\* sends a DELETE naming every ProductID of removedItems.
C16_RemovalsQueuedThenDeleted ==
    [][/\ \A p \in Products :
            (RemoveItem(p) \/ UpdateItemQty(p, 0)) =>
                /\ \A i \in 1..Len(Items') : Items'[i].ProductID # p
                /\ \A i \in 1..Len(Items) :
                      Items[i].ProductID # p
                          => \E j \in 1..Len(Items') : Items'[j] = Items[i]
                /\ removedItems' = removedItems \cup {p}
                /\ carts' = carts /\ cart_items' = cart_items
       /\ ClearCart =>
                /\ Items' = <<>>
                /\ removedItems' =
                      removedItems \cup {Items[i].ProductID : i \in 1..Len(Items)}
                /\ carts' = carts /\ cart_items' = cart_items
       /\ (saveResult' = "ok" /\ removedItems # {}) =>
                /\ \E k \in 1..Len(saveLog') :
                      /\ saveLog'[k].kind = "delete"
                      /\ saveLog'[k].ids = removedItems
                /\ \A r \in cart_items' : r.product_id \notin removedItems]_vars

\* a product was queued for removal on a saved cart and the successful Save
\* after it sent the DELETE naming it
C16_StoredLineDeleted ==
    /\ saveResult = "ok"
    /\ ~isNew
    /\ removedItems = {"p1"}
    /\ Items = <<>>
    /\ carts # {} /\ cart_items = {}
    /\ \E k \in 1..Len(saveLog) :
          saveLog[k].kind = "delete" /\ saveLog[k].ids = {"p1"}

\* the rows of cart_items the cart's lines stand for
LinesAsRows == {[product_id |-> Items[i].ProductID, quantity |-> Items[i].Quantity] :
                    i \in 1..Len(Items)}

\* C23: after a successful Save the store's line items of the cart are
\* exactly the cart's lines, same products and same quantities, whatever
\* operations came before; a product removed and added again is stored.
C23_SaveStoresTheLines ==
    saveResult = "ok" => cart_items = LinesAsRows

\* a product was removed and added again, Save succeeded, and the store has
\* no line of the product
C23_ReAddedLineNotStored ==
    /\ saveResult = "ok"
    /\ \E i \in 1..Len(Items) :
          /\ Items[i].ProductID \in removedItems
          /\ \A r \in cart_items : r.product_id # Items[i].ProductID

\* C24: whenever Save writes line items of the cart, the root row of the
\* cart is in the store: a new, never saved cart whose only changes are
\* item changes has its root row inserted before its lines.
C24_RootBeforeLines ==
    [][(saveResult' # "none" /\ \E i \in 1..Len(saveLog') : saveLog'[i].kind = "item")
        => \/ carts # {}
           \/ \E j \in 1..Len(saveLog') :
                 /\ saveLog'[j].kind = "root"
                 /\ \A i \in 1..Len(saveLog') : saveLog'[i].kind = "item" => j < i]_vars

\* Save on a new cart with one added line sent the line and no root
\* statement, and the store refused the line
C24_LineSentWithoutRoot ==
    /\ saveResult = "err"
    /\ carts = {}
    /\ Len(saveLog) = 2
    /\ saveLog[2].kind = "item"
    /\ saveFault = 2

\* C26: when requests call GetOrCreateCart concurrently with the same id
\* that has no row yet and the store fails no statement, every call returns
\* a cart without error and one root row of the id exists afterwards.
C26_ConcurrentCallsSucceed ==
    (\A r \in Requests : at[r] = "done" /\ got[r] # "fault")
    => /\ \A r \in Requests : got[r] = "cart"
       /\ Cardinality(carts) = 1

\* two requests found no row; the Save of the second was refused by the
\* primary key of carts and its call returned the error
C26_SecondCreateRefused ==
    /\ \A r \in Requests : at[r] = "done" /\ got[r] # "fault"
    /\ \E r1, r2 \in Requests : got[r1] = "cart" /\ got[r2] = "refused"
    /\ Cardinality(carts) = 1

(***************************************************************************)
(* Claims about the section updater.                                       *)
(***************************************************************************)
\* C4: a call of UpdateSectionWithAdditions that repeats the successful
\* call before it, with the same payload and nothing committed in between,
\* sends no INSERT and no UPDATE.
C4_ResubmitSendsNothing ==
    \A e \in Editors :
        (pc[e] = "done" /\ resubmit[e] /\ kind[e] = "UpdateSectionWithAdditions")
            => stmtLog[e] = <<>>

\* a repeated call that inserted the payload's new record a second time
C4_ResubmitInsertsAgain ==
    \E e \in Editors :
        /\ pc[e] = "done" /\ resubmit[e] /\ result[e] = "ok"
        /\ kind[e] = "UpdateSectionWithAdditions"
        /\ \E i \in 1..Len(stmtLog[e]) : stmtLog[e][i].op = "INSERT"
        /\ Len(section.Paragraphs) = 3

\* C5: Cart.Save and the section updater are all-or-nothing: a call in
\* which a statement or the commit failed returns an error and leaves the
\* store as it was, and no call leaves a transaction open.
C5_AllOrNothing ==
    [][/\ saveFault' # 0 => saveResult' = "err"
       /\ saveResult' = "err" => (carts' = carts /\ cart_items' = cart_items)
       /\ \A e \in Editors :
            (pc[e] = "called" /\ pc'[e] = "done") =>
                /\ fault'[e] # 0 => result'[e] = "err"
                /\ result'[e] = "err" => section' = section
       /\ openTx' = 0]_vars

\* a Save that failed after the store had accepted a line of it, and the
\* line is not in the store
C5_SaveFailedAfterLine ==
    /\ saveResult = "err"
    /\ Len(saveLog) >= 3
    /\ saveLog[Len(saveLog) - 1].kind = "item"
    /\ [product_id |-> saveLog[Len(saveLog) - 1].product_id,
        quantity |-> saveLog[Len(saveLog) - 1].quantity] \notin cart_items

\* C10: no version check protects the updater: a call fails only when one
\* of its statements or its commit failed, never because the section was
\* committed by another call after its snapshot, so two concurrent calls
\* can both succeed and one overwrite the other from its stale snapshot.
C10_NoVersionCheck ==
    \A e \in Editors :
        (pc[e] = "done" /\ result[e] = "err") => fault[e] # 0

HasRootUpdate(e) == \E i \in 1..Len(stmtLog[e]) : stmtLog[e][i].table = "sections"

\* both calls succeeded; e1 committed a new Title, e2 read its snapshot
\* before that, never touched the Title and wrote the old one back
C10_LostUpdate ==
    /\ pc["e1"] = "done" /\ result["e1"] = "ok"
    /\ pc["e2"] = "done" /\ result["e2"] = "ok"
    /\ payload["e1"].Title # InitialSection.Title
    /\ HasRootUpdate("e1")
    /\ payload["e2"].Title = InitialSection.Title
    /\ snapshot["e2"] = InitialSection
    /\ HasRootUpdate("e2")
    /\ section.Title = InitialSection.Title

\* C11: a paragraph, service or service item of the payload whose non-empty
\* identifier matches no record of the snapshot causes no INSERT and no
\* UPDATE: no statement addresses it, the statements are those of the
\* payload without it, and the call succeeds when the store fails nothing.
C11_OrphansSkipped ==
    \A e \in Editors :
        (pc[e] = "done" /\ fault[e] = 0) =>
            LET snap == snapshot[e]
                ids == {snap.Paragraphs[i].ID : i \in 1..Len(snap.Paragraphs)}
                       \cup {snap.Services[i].ID : i \in 1..Len(snap.Services)}
                       \cup UNION {{snap.Services[i].Items[j].ID :
                                        j \in 1..Len(snap.Services[i].Items)} :
                                   i \in 1..Len(snap.Services)}
                sent == {payload[e].Paragraphs[i].ID : i \in 1..Len(payload[e].Paragraphs)}
                        \cup {payload[e].Services[i].ID : i \in 1..Len(payload[e].Services)}
                        \cup UNION {{payload[e].Services[i].Items[j].ID :
                                        j \in 1..Len(payload[e].Services[i].Items)} :
                                    i \in 1..Len(payload[e].Services)}
                orphan(id) == id # NoID /\ id \in sent /\ id \notin ids
                keep(rs) == SelectSeq(rs, LAMBDA r : ~orphan(r.ID))
                services == keep(payload[e].Services)
                rest == [payload[e] EXCEPT
                            !.Paragraphs = keep(payload[e].Paragraphs),
                            !.Services = [i \in 1..Len(services) |->
                                [services[i] EXCEPT !.Items = keep(services[i].Items)]]]
                inserts == Len(SelectSeq(stmtLog[e], LAMBDA s : s.op = "INSERT"))
            IN  /\ result[e] = "ok"
                /\ \A i \in 1..Len(stmtLog[e]) :
                      ~orphan(stmtLog[e][i].id) /\ ~orphan(stmtLog[e][i].parent)
                /\ stmtLog[e] = UpdaterStmts(snap, rest, nextID - inserts,
                                             kind[e] = "UpdateSectionWithAdditions").stmts

\* a successful call whose payload carried, under a service without
\* identifier, a service item with an identifier the snapshot does not hold:
\* the item was inserted under a generated identifier
C11_OrphanItemInserted ==
    /\ pc["e1"] = "done" /\ result["e1"] = "ok" /\ fault["e1"] = 0
    /\ kind["e1"] = "UpdateSectionWithAdditions"
    /\ \E i \in 1..Len(payload["e1"].Services) :
          /\ payload["e1"].Services[i].ID = NoID
          /\ Len(payload["e1"].Services[i].Items) = 1
          /\ payload["e1"].Services[i].Items[1].ID = GhostID
    /\ \E k \in 1..Len(stmtLog["e1"]) :
          /\ stmtLog["e1"][k].op = "INSERT"
          /\ stmtLog["e1"][k].table = "section_service_items"
    /\ Len(section.Services) = 2
    /\ Len(section.Services[2].Items) = 1

\* C12: a call whose payload is the snapshot with exactly one field of one
\* paragraph or service changed, the record inserted by an earlier call and
\* read back included, sends exactly one UPDATE, addressed to that record,
\* and nothing for the root, the siblings or the service items.
C12_OneUpdateForChangedChild ==
    \A e \in Editors :
        (pc[e] = "done" /\ fault[e] = 0) =>
            LET snap == snapshot[e]
                p == payload[e]
                oneField(a, b, fields) == Cardinality({f \in fields : a[f] # b[f]}) = 1
            IN  /\ \A i \in 1..Len(snap.Paragraphs) :
                      ( /\ Len(p.Paragraphs) = Len(snap.Paragraphs)
                        /\ p = [snap EXCEPT !.Paragraphs[i] = p.Paragraphs[i]]
                        /\ p.Paragraphs[i].ID = snap.Paragraphs[i].ID
                        /\ oneField(p.Paragraphs[i], snap.Paragraphs[i], {"Order", "Content"}) )
                      => stmtLog[e] = <<SecStmt("UPDATE", "section_paragraphs",
                                                p.Paragraphs[i].ID, NoID,
                                                ParagraphRow(p.Paragraphs[i]))>>
                /\ \A i \in 1..Len(snap.Services) :
                      ( /\ Len(p.Services) = Len(snap.Services)
                        /\ p = [snap EXCEPT !.Services[i] = p.Services[i]]
                        /\ p.Services[i].ID = snap.Services[i].ID
                        /\ p.Services[i].Items = snap.Services[i].Items
                        /\ oneField(p.Services[i], snap.Services[i],
                                    {"Title", "Price", "Description"}) )
                      => stmtLog[e] = <<SecStmt("UPDATE", "section_service",
                                                p.Services[i].ID, NoID,
                                                ServiceRow(p.Services[i]))>>

\* the second call of a client that had a paragraph inserted, read the
\* section back and changed the new paragraph's content: one UPDATE, for
\* the identifier the first call generated
C12_InsertedThenUpdated ==
    /\ pc["e1"] = "done" /\ result["e1"] = "ok" /\ fault["e1"] = 0
    /\ kind["e1"] = "UpdateSectionWithAdditions"
    /\ Len(section.Paragraphs) = 2
    /\ section.Paragraphs[2].ID >= 4
    /\ payload["e1"].Paragraphs = section.Paragraphs
    /\ snapshot["e1"].Paragraphs[2].Content # section.Paragraphs[2].Content
    /\ Len(stmtLog["e1"]) = 1
    /\ stmtLog["e1"][1].op = "UPDATE"
    /\ stmtLog["e1"][1].id = section.Paragraphs[2].ID

\* C13: the updater never deletes: after a call of UpdateSection or
\* UpdateSectionWithAdditions every stored paragraph, service and service
\* item is still stored, and each one the payload leaves out has the fields
\* it had.
C13_NeverDeletes ==
    [][\A e \in Editors :
        (pc[e] = "called" /\ pc'[e] = "done") =>
            LET p == payload[e]
                sent == {p.Paragraphs[i].ID : i \in 1..Len(p.Paragraphs)}
                        \cup {p.Services[i].ID : i \in 1..Len(p.Services)}
                sentItems == UNION {{p.Services[i].Items[j].ID :
                                        j \in 1..Len(p.Services[i].Items)} :
                                    i \in 1..Len(p.Services)}
                stored(records, r) == \E k \in 1..Len(records) : records[k].ID = r.ID
                same(records, r) == \E k \in 1..Len(records) : records[k] = r
            IN  /\ \A i \in 1..Len(section.Paragraphs) :
                      LET r == section.Paragraphs[i] IN
                      /\ stored(section'.Paragraphs, r)
                      /\ r.ID \notin sent => same(section'.Paragraphs, r)
                /\ \A i \in 1..Len(section.Services) :
                      LET r == section.Services[i] IN
                      /\ stored(section'.Services, r)
                      /\ r.ID \notin sent => same(section'.Services, r)
                      /\ \A j \in 1..Len(r.Items) :
                            \E k \in 1..Len(section'.Services) :
                                /\ section'.Services[k].ID = r.ID
                                /\ stored(section'.Services[k].Items, r.Items[j])
                                /\ r.Items[j].ID \notin sentItems
                                      => same(section'.Services[k].Items, r.Items[j])
      ]_vars

\* a successful call whose payload left the stored paragraph out and
\* changed the root: the paragraph is still stored
C13_DroppedStillStored ==
    /\ pc["e1"] = "done" /\ result["e1"] = "ok"
    /\ payload["e1"].Paragraphs = <<>>
    /\ HasRootUpdate("e1")
    /\ section.Paragraphs = InitialSection.Paragraphs

(***************************************************************************)
(* Claims about the filter operations and the product read paths.          *)
(***************************************************************************)
\* C3: the page of every filter operation holds
\* min(limit, max(0, total - offset)) items, total being the value of the
\* count query.
C3_ItemsMatchTotal ==
    filterResult.op # "none" =>
        filterResult.Items =
            Min(filterResult.queryLimit, Max(0, filterResult.Total - filterResult.Offset))

\* FilterProducts counted more rows than the data query has groups and
\* returned fewer items than the total promises
C3_CountAboveGroups ==
    /\ filterResult.op = "FilterProducts"
    /\ filterResult.Page = 1
    /\ filterResult.Total > ProductGroups
    /\ filterResult.Items < Min(filterResult.queryLimit, filterResult.Total)

\* C6: every filter operation clamps the limit into [1, 100]: a limit above
\* 100 becomes 100, an absent limit becomes 20, and the page reports the
\* limit the queries used.
C6_LimitClamped ==
    filterResult.op # "none" =>
        /\ filterResult.queryLimit >= 1
        /\ filterResult.queryLimit <= MaxLimit
        /\ filterResult.reqLimit > MaxLimit => filterResult.queryLimit = MaxLimit
        /\ filterResult.reqLimit = 0 => filterResult.queryLimit = DefaultLimit
        /\ filterResult.Limit = filterResult.queryLimit

\* FilterEventKinds reports the limit it was given, not the one it used
C6_ReportedLimitNotUsed ==
    /\ filterResult.op = "FilterEventKinds"
    /\ filterResult.reqLimit = 0
    /\ filterResult.Limit = 0
    /\ filterResult.queryLimit = DefaultLimit

\* C7: with total >= 0, page >= 1 and limit >= 1 the page reports
\* totalPages = ceil(total / limit), 0 when total = 0,
\* hasNext = page < totalPages, hasPrevious = page > 1, and the data query
\* uses offset = (page - 1) * limit.
C7_PageMetadata ==
    (filterResult.op # "none" /\ filterResult.paged) =>
        LET r == filterResult IN
        /\ r.Page >= 1 /\ r.Limit >= 1 /\ r.Total >= 0
        /\ r.Total = 0 => r.TotalPages = 0
        /\ r.Total > 0 => /\ r.TotalPages * r.Limit >= r.Total
                          /\ (r.TotalPages - 1) * r.Limit < r.Total
        /\ r.HasNext = (r.Page < r.TotalPages)
        /\ r.HasPrevious = (r.Page > 1)
        /\ r.Offset = (r.Page - 1) * r.Limit

\* page 1 of 5 rows by 2: three pages, a next page, no previous page
C7_FirstOfThreePages ==
    /\ filterResult.op = "FilterSections"
    /\ filterResult.Total = 5 /\ filterResult.Limit = 2 /\ filterResult.Page = 1
    /\ filterResult.TotalPages = 3
    /\ filterResult.HasNext /\ ~filterResult.HasPrevious
    /\ filterResult.Items = 2

\* C8: every read path returns available = false for a product whose stock
\* quantity is <= 0, whatever the stored flag.
C8_OutOfStockUnavailable ==
    \A r \in readResult.rows : r.quantity <= 0 => ~r.available

\* FindCatalogProductDetail returned a product without stock as available
C8_DetailAvailableWithoutStock ==
    /\ readResult.path = "FindCatalogProductDetail"
    /\ \E r \in readResult.rows : r.quantity <= 0 /\ r.available

(***************************************************************************)
(* Claims about the connection pool.                                       *)
(***************************************************************************)
\* C9: an operation holds at most one pooled connection at any time and
\* holds none once it has returned.
C9_OneConnection ==
    \A p \in Procs :
        /\ held[p] <= 1
        /\ running[p] = "none" => held[p] = 0

\* FindCatalogProducts holds its own connection and the one
\* FilterCatalogProducts acquired
C9_TwoConnectionsHeld ==
    \E p \in Procs : running[p] = "FindCatalogProducts" /\ held[p] = 2

\* C25: with a pool of MaxConns connections and concurrent operations, every
\* operation eventually obtains the connections it needs and returns.
C25_EveryOperationReturns ==
    \A p \in Procs : (running[p] # "none") ~> (running[p] = "none")

\* every connection is held by an operation that waits for one more
C25_AllHoldAndWait ==
    /\ free = 0
    /\ \A p \in Procs :
          /\ running[p] \in {"FindCatalogProducts", "SCreateProducts"}
          /\ held[p] = 1
          /\ PoolProgram(running[p])[ip[p]] = "acquire"

(***************************************************************************)
(* Claims about the query builders.                                        *)
(***************************************************************************)
\* C17: without ranking (mode exact or fuzzy, or an empty search term)
\* every resource's order resolver maps an empty sort token, an unknown
\* sort token and "relevance" to name ascending.
C17_UnrankedDefaultsToName ==
    ( /\ compiled.op = "order"
      /\ ~compiled.ranked
      /\ ToLower(compiled.Sort) \in {"", "relevance", "bogus", "name; drop table products"} )
    => /\ Len(compiled.clause) = 1
       /\ compiled.clause[1].col \in {"name", "w.name", "ws.name", "ctg.name"}
       /\ compiled.clause[1].dir = "ASC"

\* the quote resolver maps the empty token to creation date descending
C17_QuotesDefaultToCreatedDesc ==
    /\ compiled.op = "order"
    /\ compiled.resource = "quotes"
    /\ compiled.Sort = ""
    /\ compiled.clause = <<[col |-> "q.created_at", dir |-> "DESC"]>>

\* C18: with FullText active and a non-empty term, an empty or "relevance"
\* sort token orders by relevance descending first, and every other
\* accepted sort key is the primary key with relevance descending as the
\* second key.
C18_RankedOrdering ==
    ( /\ compiled.op = "order"
      /\ compiled.resource \in SearchResources
      /\ compiled.ranked )
    => LET t == ToLower(compiled.Sort)
           c == compiled.clause
           relevance == [col |-> "search_rank", dir |-> "DESC"]
           byName(dir) == /\ Len(c) >= 2
                          /\ c[1].col \in {"name", "w.name", "ctg.name"}
                          /\ c[1].dir = dir
                          /\ c[2] = relevance
       IN  /\ t \in {"", "relevance"} => c[1] = relevance
           /\ t \in {"name", "name_asc"} => byName("ASC")
           /\ t = "name_desc" => byName("DESC")
           /\ (t \notin {"", "relevance"} /\ c[1] # relevance)
                 => (Len(c) >= 2 /\ c[2] = relevance)

\* a full-text product search sorted by name descending: the clause has the
\* name key only
C18_NameWithoutTiebreaker ==
    /\ compiled.op = "order"
    /\ compiled.resource = "products"
    /\ compiled.Search # "" /\ compiled.SearchMode = "fulltext"
    /\ compiled.Sort = "name_desc"
    /\ compiled.clause = <<[col |-> "name", dir |-> "DESC"]>>

C20_ConditionsPerField ==
    compiled.op = "conditions" =>
        LET cs == compiled.conditions
            f == compiled.params
            populated(field) ==
                CASE field \in {"Search", "SearchMode", "EventKind", "CreatedAfter",
                                "CreatedBefore", "UpdatedAfter", "UpdatedBefore"} ->
                        f[field] # ""
                  [] field \in {"IDs", "OnlyIDs", "ExcludeIDs", "Categories"} ->
                        f[field] # {}
                  [] OTHER -> f[field] # 0
        IN  /\ \A field \in DOMAIN f :
                  Cardinality({i \in 1..Len(cs) : field \in cs[i].fields}) <= 1
            /\ \A i \in 1..Len(cs) :
                  /\ \A field \in cs[i].fields : populated(field)
                  \* a name the arguments do not bind is sent as NULL, and a
                  \* comparison with NULL holds for no row
                  /\ cs[i].names \subseteq compiled.namedArgs
                  /\ cs[i].text \notin {"1=1", "1=0", "TRUE", "FALSE"}

\* FilterWizards with Enabled = 2: the list has the condition on w.enabled
\* and the arguments do not bind @enabled
C20_EnabledWithoutBinding ==
    /\ compiled.op = "conditions"
    /\ compiled.resource = "wizards"
    /\ compiled.params.Enabled = 2
    /\ \E i \in 1..Len(compiled.conditions) :
          /\ compiled.conditions[i].text = "w.enabled = @enabled"
          /\ "enabled" \notin compiled.namedArgs

(***************************************************************************)
(* Claims about the single-entity lookups.                                 *)
(***************************************************************************)
\* the errors package db declares for "no entity has this identity"
NotFoundErrors == {"ErrSectionNotFound", "ErrCartNotFound"}

\* C21: a lookup called with an identity no entity has, the store and the
\* pool working, returns one of the package's not-found errors.
C21_TypedNotFound ==
    ( /\ lookup.op \in Lookups
      /\ lookup.fault = "none"
      /\ lookup.id \notin entities[lookup.op] )
    => lookup.err \in NotFoundErrors

\* FindProductByID of a uuid no product has returns the driver's
\* pgx.ErrNoRows
C21_ProductLookupReturnsDriverError ==
    /\ lookup.op = "FindProductByID"
    /\ lookup.id = "u2"
    /\ lookup.fault = "none"
    /\ lookup.err = "pgx.ErrNoRows"

\* C27: for every filter operation and every search mode, with or without
\* a search term, materializing a non-empty result succeeds: the data query
\* selects as many columns as each row is scanned into.
C27_ColumnsMatchDestinations ==
    compiled.op = "scan"
    => /\ Len(compiled.columns) = Len(compiled.destinations)
       /\ ~compiled.err

\* FilterSections with a full-text search term selects search_rank as an
\* eleventh column and scans ten
C27_SectionRankNotScanned ==
    /\ compiled.op = "scan"
    /\ compiled.operation = "FilterSections"
    /\ compiled.Search # "" /\ compiled.SearchMode = "fulltext"
    /\ Len(compiled.columns) = Len(compiled.destinations) + 1
    /\ compiled.err

\* C28: the WHERE clause made of the compiled conditions joined with AND
\* selects exactly the rows that satisfy every condition, also when a
\* condition is itself a disjunction.
C28_WhereIsConjunction ==
    compiled.op = "where"
    => ( compiled.selected
         <=> \A i \in 1..Len(compiled.conditions) :
                HoldsFrom(CondTokens(compiled.conditions[i].text), 1, TRUE,
                          compiled.row, compiled.params) )

\* filtering by id and by "no image" selects a row with an empty image
\* name whose id is not among the ids asked for
C28_RowOutsideIDsSelected ==
    /\ compiled.op = "where"
    /\ compiled.params.IDs = {"id1"}
    /\ compiled.params.HasImage = -1
    /\ compiled.row.id = "id2"
    /\ compiled.row.image = ""
    /\ compiled.selected

\* C22: GetCatalogProductsByIDs(ids) returns exactly the catalog products
\* whose id is in ids, however many ids are given, and none for no ids.
C22_ExactlyTheProductsOfIDs ==
    lookup.op = "GetCatalogProductsByIDs"
    => lookup.rows = CatalogIDs \cap lookup.productIDs.ids

\* called with an empty list, it returns the first page of the whole view
C22_EmptyListReturnsFirstPage ==
    /\ lookup.op = "GetCatalogProductsByIDs"
    /\ lookup.productIDs.len = 0
    /\ lookup.rows = 1..DefaultCatalogPageSize
    /\ Cardinality(CatalogIDs) > DefaultCatalogPageSize


(***************************************************************************)
(* Claims about the calls that insert services with their items.           *)
(***************************************************************************)
IsItemInsert(s) == s.op = "INSERT" /\ s.table = "section_service_items"
IsServiceInsert(s) == s.op = "INSERT" /\ s.table = "section_service"

\* C29: every service item INSERT sent by CreateSection, AddServiceToSection
\* or UpdateSectionWithAdditions carries as service_id the identity of the
\* service row the same call inserted before it (or, in
\* UpdateSectionWithAdditions, of the service of the snapshot the payload's
\* service matched): never the empty identity, never a service the call
\* neither inserted nor matched.
C29_ItemsUnderTheirService ==
    \A e \in Editors :
        pc[e] = "done" /\ kind[e] \in InsertKinds \cup {"UpdateSectionWithAdditions"} =>
            \A i \in 1..Len(stmtLog[e]) :
                IsItemInsert(stmtLog[e][i]) =>
                    /\ stmtLog[e][i].parent # NoID
                    /\ \/ \E j \in 1..(i - 1) :
                            /\ IsServiceInsert(stmtLog[e][j])
                            /\ stmtLog[e][j].id = stmtLog[e][i].parent
                       \/ /\ kind[e] = "UpdateSectionWithAdditions"
                          /\ findServiceByID(snapshot[e].Services, stmtLog[e][i].parent) # 0

\* CreateSection has sent a service row under a generated identifier and
\* then an item whose service_id is the empty identity of the payload
C29_CreateSectionItemWithoutService ==
    \E i \in 1..Len(stmtLog["e1"]) :
        /\ pc["e1"] = "done" /\ kind["e1"] = "CreateSection"
        /\ IsItemInsert(stmtLog["e1"][i])
        /\ stmtLog["e1"][i].parent = NoID
        /\ i > 1 /\ IsServiceInsert(stmtLog["e1"][i - 1])
        /\ stmtLog["e1"][i - 1].id # NoID
        /\ result["e1"] = "err"


(***************************************************************************)
(* Claims about the PopulateAuth middleware.                               *)
(***************************************************************************)
\* C30: whatever token a request carries, PopulateAuth invokes the wrapped
\* handler exactly once: never twice while the request is handled, and once
\* when the middleware has returned.
C30_NextInvokedOnce ==
    \A r \in HTTPRequests :
        /\ Len(handled[r].invoked) <= 1
        /\ handled[r].pos = "done" => Len(handled[r].invoked) = 1

\* a request with a valid token has been through the middleware, and the
\* handler ran with the authenticated request and again with the plain one
C30_ValidTokenInvokedTwice ==
    \E r \in HTTPRequests :
        /\ handled[r].token = "valid"
        /\ handled[r].pos = "done"
        /\ handled[r].invoked = <<"authedReq", "r">>

====
